---------------------------- MODULE Spec2Model ----------------------------
(***************************************************************************)
(* Model of the DrawingGuess canvas session (src/src/surfaces/projects/    *)
(* canvas.py) and of the tools it hosts (components/@builtins/tools/Pen,   *)
(* components/@builtins/tools/Hand, components/@builtins/utils/zoom.py).   *)
(*                                                                         *)
(* Units.  zoom_level is kept in hundredths (1.0 is 100).  Offsets and     *)
(* world coordinates are kept in hundredths of a pixel; screen positions   *)
(* are whole pixels.  A float expression is evaluated exactly and rounded  *)
(* down once to that grid.                                                 *)
(*                                                                         *)
(* A pygame.Surface is a record [obj, pix]: obj is the identity of the     *)
(* Python object, pix its content, the set of world cells that carry ink.  *)
(* Surface.copy() yields a record with a fresh obj; drawing on an object   *)
(* changes the pix of every reference to that obj.                         *)
(***************************************************************************)
EXTENDS Integers, Sequences, FiniteSets, TLC

VARIABLES
    running,                \* surface(): loop flag
    is_dirty,               \* surface(): unsaved changes
    current_project_path,   \* surface(): path of the open project or None
    dialog_state,           \* surface(): None or "confirm_action"
    dialog_pending_action,  \* surface(): None, "new_canvas", "open_file", "exit"
    history,                \* surface(): list of (Surface, label)
    history_index,          \* surface(): 0-based index into history
    history_scroll_offset,  \* surface(): first row shown in the History menu
    drawing_surface,        \* surface(): the live Surface (also context["drawing_surface"])
    hand_tool_id,           \* surface(): hand_tool_id[0]
    ctx,                    \* surface(): shared_tool_context
    pen,                    \* PenTool instance fields
    hand,                   \* HandTool instance fields
    zoom,                   \* ZoomTool instance fields (and its slider)
    palette,                \* ColorPalette instance fields
    drag_held,              \* the left button went down on the wheel or the value
                            \* bar of the open colour popup and has not come up
    phase,                  \* position in surface(): "load" and "failed" before
                            \* the main loop; "poll", "dialog", "events" in it;
                            \* "loads", "returned", "raised" in the kit loader;
                            \* "scan", "scanned" in the dispatcher of the loaders
    loaded_tool_plugins,    \* surface(): the plugins the loading loop has yet to visit
    injected,               \* surface(): the injected_* slots that are not None
    kit_objects,            \* v3_1.loads(): initial["@objects"]
    tools,                  \* v3_1.loads(): the list it builds (names of the tools)
    root,                   \* kits.components(): the directory fdir as scanned
    loaders_run,            \* kits.components(): the loader versions already run
    components,             \* kits.components(): the list it builds
    delivered,              \* handle_event calls made for the event handled last
    strokes,                \* number of add_history calls made by tools so far
    cam_moves,              \* number of events so far that changed zoom or pan
    frame,                  \* number of frames begun so far
    polled,                 \* number of events of this frame handled so far
    ops                     \* number of operations applied directly (HistSpec, CamSpec)

vars == <<running, is_dirty, current_project_path, dialog_state,
          dialog_pending_action, history, history_index, history_scroll_offset,
          drawing_surface, hand_tool_id, ctx, pen, hand, zoom, palette, drag_held,
          phase, delivered,
          loaded_tool_plugins, injected, kit_objects, tools, root, loaders_run,
          components, strokes, cam_moves, frame, polled, ops>>

-----------------------------------------------------------------------------
(* Bounds of the model *)

\* tools complete at most this many strokes in a run of Spec
MaxStrokes == 2
\* at most this many events of a run of Spec change zoom_level or pan_offset
MaxCameraMoves == 1
\* a run of Spec goes through at most this many frames
MaxFrames == 3
\* and pygame.event.get() returns at most this many events in a frame
MaxEventsPerFrame == 2
\* a run of HistSpec performs at most this many operations
MaxHistOps == 3
\* and a run of CamSpec at most this many
MaxCamOps == 3
\* and a run of FnSpec at most this many
MaxFnOps == 2

-----------------------------------------------------------------------------
(* Program constants *)

None == "None"
NoPos == <<>>

SCREEN_WIDTH == 1668
SCREEN_HIGH == 938
WORLD_WIDTH == 8000
WORLD_HEIGHT == 6000
TOP_BAR_HEIGHT == 40
TOOLBAR_HEIGHT == 80
TOOLBAR_PADDING == 10
TOOLBAR_SLIDE_DISTANCE == 60
HISTORY_MENU_WIDTH == 300
HISTORY_MENU_PADDING == 5
HISTORY_ITEM_HEIGHT == 25
MAX_VISIBLE_HISTORY_ITEMS == 10
MAX_HISTORY_SIZE == 30
toolbar_btn_size == 60
toolbar_btn_gap == 10
FILE_BTN_WIDTH == 100
HISTORY_BTN_WIDTH == 100
\* zoom.py: 0.5 and 2.0, in hundredths
MIN_ZOOM == 50
MAX_ZOOM == 200

PenId == "Pen"
HandId == "Hand"
ZoomId == "Zoom"
PaletteId == "ColorPalette"

-----------------------------------------------------------------------------
(* Small helpers *)

Max(a, b) == IF a >= b THEN a ELSE b
Min(a, b) == IF a <= b THEN a ELSE b

\* pygame.Rect as [x, y, w, h]
Rect(x, y, w, h) == [x |-> x, y |-> y, w |-> w, h |-> h]

\* pygame.Rect.collidepoint: right and bottom edges are outside
collidepoint(r, p) ==
    /\ p # NoPos
    /\ r.x <= p[1] /\ p[1] < r.x + r.w
    /\ r.y <= p[2] /\ p[2] < r.y + r.h

\* variant of Button.is_clicked that does not look at the event type
Button_is_clicked_any_type(rect, event) == collidepoint(rect, event.pos)

\* Button.is_clicked(event) of a button with this rect
Button_is_clicked(rect, event) ==
    event.type = "MOUSEBUTTONDOWN" /\ collidepoint(rect, event.pos)

\* Python seq[i], 0-based, a negative index counting from the end
PyIndex(seq, i) == IF i < 0 THEN seq[Len(seq) + i + 1] ELSE seq[i + 1]

-----------------------------------------------------------------------------
(* Surfaces *)

Cells == {"L", "R"}
Blank == {}
ObjIds == 0 .. (MAX_HISTORY_SIZE + 3)

\* the objects a state still refers to
UsedObjs(s) ==
    {s.drawing_surface.obj} \cup {s.history[k].surf.obj : k \in 1 .. Len(s.history)}

\* identity of a newly created Surface
FreshObj(s) ==
    CHOOSE o \in ObjIds :
        /\ o \notin UsedObjs(s)
        /\ \A q \in ObjIds : q < o => q \in UsedObjs(s)

\* pygame.Surface.copy()
SurfaceCopy(s, surf) == [obj |-> FreshObj(s), pix |-> surf.pix, size |-> surf.size]

\* every reference to object o now shows content p
SetPix(s, o, p) ==
    [s EXCEPT
        !.drawing_surface = IF @.obj = o THEN [@ EXCEPT !.pix = p] ELSE @,
        !.history = [k \in 1 .. Len(@) |->
                        IF @[k].surf.obj = o
                        THEN [@[k] EXCEPT !.surf.pix = p] ELSE @[k]]]

\* the world cell a world position (hundredths of a pixel) falls in
CellOf(cpos) ==
    IF cpos = NoPos THEN "off"
    ELSE IF \/ cpos[1] < 0 \/ cpos[1] >= WORLD_WIDTH * 100
            \/ cpos[2] < 0 \/ cpos[2] >= WORLD_HEIGHT * 100 THEN "off"
    ELSE IF cpos[1] < (WORLD_WIDTH \div 2) * 100 THEN "L" ELSE "R"

\* pygame.draw.circle / pygame.draw.line on the Surface context["drawing_surface"]
DrawAt(s, cpos) ==
    IF \/ CellOf(cpos) = "off"
       \/ cpos[1] >= s.drawing_surface.size[1] * 100
       \/ cpos[2] >= s.drawing_surface.size[2] * 100
    THEN s
    ELSE SetPix(s, s.drawing_surface.obj, s.drawing_surface.pix \cup {CellOf(cpos)})


-----------------------------------------------------------------------------
(* Camera: components/@builtins/utils/zoom.py *)

\* simple_screen_to_canvas for a screen position given in hundredths of a
\* pixel: (screen_pos - offset) / zoom
screen_to_canvas_fine(pos, z, offset) ==
    << ((pos[1] - offset[1]) * 100) \div z, ((pos[2] - offset[2]) * 100) \div z >>

\* simple_screen_to_canvas: (screen_pos - offset) / zoom; the result is a world
\* position in hundredths of a pixel
simple_screen_to_canvas(screen_pos, z, offset) ==
    screen_to_canvas_fine(<<screen_pos[1] * 100, screen_pos[2] * 100>>, z, offset)

\* variant of simple_canvas_to_screen that leaves the offset out
simple_canvas_to_screen_unshifted(canvas_pos, z, offset) ==
    << (canvas_pos[1] * z) \div 100, (canvas_pos[2] * z) \div 100 >>

\* simple_canvas_to_screen: canvas_pos * zoom + offset, in hundredths of a pixel
simple_canvas_to_screen(canvas_pos, z, offset) ==
    << (canvas_pos[1] * z) \div 100 + offset[1],
       (canvas_pos[2] * z) \div 100 + offset[2] >>

\* variant of the clamp that lets every request through
ClampZoom_none(new_zoom) == new_zoom

\* the clamp of _set_zoom: max(MIN_ZOOM, min(MAX_ZOOM, new_zoom))
ClampZoom(new_zoom) == Max(MIN_ZOOM, Min(MAX_ZOOM, new_zoom))

\* Slider.set_value of the zoom slider (min_val 0.5, max_val 2.0)
slider_set_value(value) == Max(MIN_ZOOM, Min(MAX_ZOOM, value))

\* variant of _set_zoom that looks up the world point under the pivot after
\* zoom_level has been assigned: the offset comes out as it was
ZoomTool_set_zoom_late(s, new_zoom, pivot_pos) ==
    [s EXCEPT !.ctx.zoom_level = ClampZoom(new_zoom),
              !.zoom.slider_value = slider_set_value(ClampZoom(new_zoom))]

\* ZoomTool._set_zoom: the new offset keeps the world point under pivot_pos,
\* pivot - ((pivot - offset) / zoom) * new_zoom
ZoomTool_set_zoom(s, new_zoom, pivot_pos) ==
    LET nz == ClampZoom(new_zoom)
        cz == s.ctx.zoom_level
        co == s.ctx.pan_offset
        new_offset ==
            << pivot_pos[1] * 100 - ((pivot_pos[1] * 100 - co[1]) * nz) \div cz,
               pivot_pos[2] * 100 - ((pivot_pos[2] * 100 - co[2]) * nz) \div cz >>
    IN  [s EXCEPT !.ctx.zoom_level = nz,
                  !.ctx.pan_offset = new_offset,
                  !.zoom.slider_value = slider_set_value(nz)]

\* variant of apply_constraints that clamps to [min, 0] and never centres
ConstrainAxis_uncentred(screen_size, world_size, z, off) ==
    Max(screen_size * 100 - world_size * z, Min(0, off))

\* variant of apply_constraints that moves a small world half way to the
\* centre
ConstrainAxis_easing(screen_size, world_size, z, off) ==
    IF screen_size * 100 - world_size * z > 0
    THEN (off + (screen_size * 100 - world_size * z) \div 2) \div 2
    ELSE Max(screen_size * 100 - world_size * z, Min(0, off))

\* ZoomTool.apply_constraints for one axis: the clamped offset
ConstrainAxis(screen_size, world_size, z, off) ==
    LET min0 == screen_size * 100 - world_size * z
        center == (screen_size * 100 - world_size * z) \div 2
        min_offset == IF min0 > 0 THEN center ELSE min0
        max_offset == IF min0 > 0 THEN center ELSE 0
    IN  Max(min_offset, Min(max_offset, off))

\* ZoomTool.apply_constraints(context, world_size)
apply_constraints(s, world_size) ==
    LET z == Max(MIN_ZOOM, Min(MAX_ZOOM, s.ctx.zoom_level))
        no == << ConstrainAxis(SCREEN_WIDTH, world_size[1], z, s.ctx.pan_offset[1]),
                 ConstrainAxis(SCREEN_HIGH, world_size[2], z, s.ctx.pan_offset[2]) >>
    IN  [s EXCEPT !.ctx.zoom_level = z,
                  !.ctx.pan_offset = no,
                  !.ctx.canvas_mouse_pos =
                      simple_screen_to_canvas(s.ctx.mouse_pos, z, no)]

\* the host's injected_apply_constraints[0](), which passes
\* (WORLD_WIDTH, WORLD_HEIGHT)
ZoomTool_apply_constraints(s) == apply_constraints(s, <<WORLD_WIDTH, WORLD_HEIGHT>>)

\* the host's injected_set_zoom[0](zoom_level, screen centre)
ResetCamera(s) ==
    ZoomTool_set_zoom(s, s.ctx.zoom_level, <<SCREEN_WIDTH \div 2, SCREEN_HIGH \div 2>>)

-----------------------------------------------------------------------------
(* History engine: nested functions of surface() *)

\* variant of set_history_state that installs the snapshot itself
set_history_state_shared(s, index) ==
    [s EXCEPT !.history_index = index,
              !.drawing_surface = PyIndex(s.history, index).surf,
              !.is_dirty = TRUE]

\* set_history_state(index)
set_history_state(s, index) ==
    [s EXCEPT !.history_index = index,
              !.drawing_surface = SurfaceCopy(s, PyIndex(s.history, index).surf),
              !.is_dirty = TRUE]

\* variant that keeps the entries after history_index
RedoCleared_kept(s) == s.history

\* lines 286-287: the entries a new entry is appended to
RedoCleared(s) ==
    IF s.history_index < Len(s.history) - 1
    THEN SubSeq(s.history, 1, s.history_index + 1)
    ELSE s.history

\* variant that never evicts
Evicted_none(h) == h

\* lines 290-291: history.pop(0) on a full stack
Evicted(h) == IF Len(h) >= MAX_HISTORY_SIZE THEN Tail(h) ELSE h

\* lines 294-300, h being the entries kept and c the copy of the live surface
AppendSnapshot(s, h, c, action_name) ==
    [s EXCEPT !.history = Append(h, [surf |-> c, label |-> action_name]),
              !.history_index = Len(h),
              !.is_dirty = TRUE,
              !.history_scroll_offset = Max(0, Len(h) + 1 - MAX_VISIBLE_HISTORY_ITEMS)]

\* line 294: drawing_surface.copy(), made while the stack holds h
CopyAndAppend(s, h, action_name) ==
    AppendSnapshot(s, h, SurfaceCopy([s EXCEPT !.history = h], s.drawing_surface),
                   action_name)

\* add_history(action_name)
add_history(s, action_name) == CopyAndAppend(s, Evicted(RedoCleared(s)), action_name)

\* variant of undo without the test for the first entry
undo_unguarded(s) == set_history_state(s, s.history_index - 1)

\* undo()
undo(s) == IF s.history_index > 0 THEN set_history_state(s, s.history_index - 1) ELSE s

\* variant of redo that goes to the last entry
redo_to_last(s) ==
    IF s.history_index < Len(s.history) - 1
    THEN set_history_state(s, Len(s.history) - 1) ELSE s

\* redo()
redo(s) ==
    IF s.history_index < Len(s.history) - 1
    THEN set_history_state(s, s.history_index + 1) ELSE s

\* variant that leaves is_dirty as add_history set it
ForgetProject_dirty(s) == ResetCamera([s EXCEPT !.current_project_path = None])

\* lines 326-330 of clear_canvas
ForgetProject(s) == ResetCamera([s EXCEPT !.is_dirty = FALSE, !.current_project_path = None])

\* clear_canvas()
clear_canvas(s) ==
    ForgetProject(add_history([SetPix(s, s.drawing_surface.obj, Blank)
                                  EXCEPT !.history = <<>>], "Initial"))

-----------------------------------------------------------------------------
(* File operations.  What the file dialog and the file system answer is an *)
(* input: io.open, io.save_as and io.write.                                *)

Paths == {"a.vecbo"}
Contents == SUBSET Cells

\* askopenfilename cancelled; reading or decoding raises; or a file with content
OpenAnswers == {[kind |-> "cancel"], [kind |-> "raise"]}
                 \cup {[kind |-> "ok", path |-> p, pix |-> c,
                         size |-> <<WORLD_WIDTH, WORLD_HEIGHT>>] : p \in Paths, c \in Contents}
\* asksaveasfilename: cancelled or a path
SaveAsAnswers == {None} \cup Paths
\* open(path, 'wb') / pickle.dump: written or raises
WriteAnswers == {"ok", "raise"}

IOs == [open : OpenAnswers, save_as : SaveAsAnswers, write : WriteAnswers]

\* lines 427-434 of open_file: new_surf becomes the live surface and a copy of
\* it the only history entry
AdoptSurface(s, new_surf, path) ==
    [s EXCEPT !.drawing_surface = new_surf,
              !.current_project_path = path,
              !.is_dirty = FALSE,
              !.history = << [surf |-> [obj |-> FreshObj([s EXCEPT
                                                   !.drawing_surface = new_surf,
                                                   !.history = <<>>]),
                                        pix |-> new_surf.pix,
                                        size |-> new_surf.size],
                              label |-> "Opened"] >>,
              !.history_index = 0]

\* lines 424-441 of open_file: pygame.image.fromstring makes a new Surface
LoadProject(s, answer) ==
    [ResetCamera(AdoptSurface(s, [obj |-> FreshObj(s), pix |-> answer.pix,
                                    size |-> answer.size], answer.path))
        EXCEPT !.ret = TRUE]

\* variant of open_file that marks the session clean before reading the file
open_file_clean_first(s, io) ==
    IF io.open.kind = "cancel" THEN [s EXCEPT !.ret = FALSE]
    ELSE IF io.open.kind = "raise" THEN [s EXCEPT !.is_dirty = FALSE, !.ret = FALSE]
    ELSE LoadProject(s, io.open)

\* open_file(); s.ret is the value returned
open_file(s, io) ==
    IF io.open.kind # "ok" THEN [s EXCEPT !.ret = FALSE] ELSE LoadProject(s, io.open)

\* the part of save_vecbo() after the path is known
save_write(s, io) ==
    IF io.write = "ok" THEN [s EXCEPT !.is_dirty = FALSE, !.ret = TRUE]
    ELSE [s EXCEPT !.ret = FALSE]

\* save_as_vecbo()
save_as_vecbo(s, io) ==
    IF io.save_as # None
    THEN save_write([s EXCEPT !.current_project_path = io.save_as], io)
    ELSE [s EXCEPT !.ret = FALSE]

\* save_vecbo()
save_vecbo(s, io) ==
    IF s.current_project_path = None THEN save_as_vecbo(s, io) ELSE save_write(s, io)

\* export_as_image(): writes a file, changes nothing of the session
export_as_image(s) == s

\* set_dialog(state, pending_action)
set_dialog(s, state, pending_action) ==
    [s EXCEPT !.dialog_state = state, !.dialog_pending_action = pending_action]


-----------------------------------------------------------------------------
(* Layout *)

top_bar_rect == Rect(0, 0, SCREEN_WIDTH, TOP_BAR_HEIGHT)
toolbar_visible_y == SCREEN_HIGH - TOOLBAR_HEIGHT
toolbar_hidden_y == SCREEN_HIGH - TOOLBAR_SLIDE_DISTANCE
\* toolbar_rect; its y is always the value of context["toolbar_current_y"]
toolbar_rect(s) == Rect(0, s.ctx.toolbar_current_y, SCREEN_WIDTH, TOOLBAR_HEIGHT)
file_btn_rect == Rect(0, 0, FILE_BTN_WIDTH, TOP_BAR_HEIGHT)
history_btn_rect == Rect(FILE_BTN_WIDTH, 0, HISTORY_BTN_WIDTH, TOP_BAR_HEIGHT)
history_menu_height ==
    HISTORY_ITEM_HEIGHT * MAX_VISIBLE_HISTORY_ITEMS + HISTORY_MENU_PADDING * 2
history_placeholder_rect ==
    Rect(history_btn_rect.x, TOP_BAR_HEIGHT, HISTORY_MENU_WIDTH, history_menu_height)

\* dialog_rect (500 x 200, centred) and the three buttons set_dialog lays out
dialog_rect == Rect(SCREEN_WIDTH \div 2 - 250, SCREEN_HIGH \div 2 - 100, 500, 200)
DialogButtonRect(k) ==
    Rect((dialog_rect.x + 250) - (140 * 3 + 10 * 2) \div 2 + k * (140 + 10),
         dialog_rect.y + dialog_rect.h - 40 - 20, 140, 40)
dialog_buttons == << [name |-> "save", rect |-> DialogButtonRect(0)],
                     [name |-> "dont_save", rect |-> DialogButtonRect(1)],
                     [name |-> "cancel", rect |-> DialogButtonRect(2)] >>

\* the buttons of the File menu, top to bottom (add_file_btn)
FileMenuItems(s) ==
    IF s.current_project_path # None
    THEN << "New Whiteboard", "Open From...", "Save", "Save as... (.vecbo)",
            "Export as... (.png)", "Back to Main Menu" >>
    ELSE << "New Whiteboard", "Open From...", "Save as... (.vecbo)",
            "Export as... (.png)", "Back to Main Menu" >>
FileMenuItemRect(k) == Rect(file_btn_rect.x, TOP_BAR_HEIGHT + (k - 1) * 40, 300, 40)

\* history_menu_hot_zone and file_menu_hot_zone
history_menu_hot_zone == {history_btn_rect, history_placeholder_rect}
file_menu_hot_zone(s) ==
    {file_btn_rect} \cup
    (IF s.ctx.menu_open = "file"
     THEN {FileMenuItemRect(k) : k \in 1 .. Len(FileMenuItems(s))} ELSE {})

\* tool buttons, in loading order Pen, Hand; the zoom slider follows them
PenButtonRect(s) ==
    Rect(TOOLBAR_PADDING, s.pen.button_y, toolbar_btn_size, toolbar_btn_size)
HandButtonRect(s) ==
    Rect(s.hand.button_x, s.hand.button_y, toolbar_btn_size, toolbar_btn_size)

\* lines 538-550: hand_tool_id is bound, to the hand tool's registryId, when
\* the kit declares the hand tool a utility tool; the loop then lists it with
\* the utility tools and not with the toolbar's tools (kit order Pen, Hand, Zoom)
loaded_tool_instances(s) ==
    (IF s.hand_tool_id = HandId THEN <<PenId>> ELSE <<PenId, HandId>>)
        \o (IF s.palette.loaded THEN <<PaletteId>> ELSE << >>)
utility_tools_to_draw(s) ==
    IF s.hand_tool_id = HandId THEN <<HandId, ZoomId>> ELSE <<ZoomId>>

\* toolbar_btn_x once n toolbar tools have been instantiated (line 555)
toolbar_btn_x_after(n) == TOOLBAR_PADDING + n * (toolbar_btn_size + toolbar_btn_gap)
toolbar_btn_x_end(s) == toolbar_btn_x_after(Len(loaded_tool_instances(s)))
zoom_slider_x_start(s) == toolbar_btn_x_end(s) + 10
ZoomSliderRect(s) == Rect(s.zoom.slider_pos[1], s.zoom.slider_pos[2], 260, 25)

\* PenTool._update_popup_rects: the size modal, above the toolbar, kept on screen
PenModalRect(s) ==
    LET w == 280
        h == 80
        x0 == (TOOLBAR_PADDING + toolbar_btn_size \div 2) - w \div 2
        y0 == (s.ctx.toolbar_current_y - 10) - h
        x == Max(5, Min(x0, (SCREEN_WIDTH - 5) - w))
        y == Max(5, Min(y0, (SCREEN_HIGH - 5) - h))
    IN  Rect(x, y, w, h)
\* the slider and the input box inside the modal
PenSliderRectIn(modal) == Rect(modal.x + 20, modal.y + 25, 100, 30)
PenSliderRect(s) == PenSliderRectIn(PenModalRect(s))
PenInputRectBy(slider) == Rect(slider.x + 100 + 10, slider.y, 70, 30)
PenInputRect(s) == PenInputRectBy(PenSliderRect(s))

-----------------------------------------------------------------------------
(* Events *)

Ev(type, button, pos, wy, key, ctrl, shift) ==
    [type |-> type, button |-> button, pos |-> pos, wy |-> wy, key |-> key,
     ctrl |-> ctrl, shift |-> shift]
MouseDown(b, p) == Ev("MOUSEBUTTONDOWN", b, p, 0, None, FALSE, FALSE)
MouseUp(b, p) == Ev("MOUSEBUTTONUP", b, p, 0, None, FALSE, FALSE)
MouseMotion(p) == Ev("MOUSEMOTION", 0, p, 0, None, FALSE, FALSE)
MouseWheel(y) == Ev("MOUSEWHEEL", 0, NoPos, y, None, FALSE, FALSE)
KeyDown(key, ctrl, shift) == Ev("KEYDOWN", 0, NoPos, 0, key, ctrl, shift)
KeyUp(key) == Ev("KEYUP", 0, NoPos, 0, key, FALSE, FALSE)
QuitEvent == Ev("QUIT", 0, NoPos, 0, None, FALSE, FALSE)
\* pygame.USEREVENT + 1, the timer of open_file_on_start
UserEvent1 == Ev("USEREVENT1", 0, NoPos, 0, None, FALSE, FALSE)

IsDown1(ev) == ev.type = "MOUSEBUTTONDOWN" /\ ev.button = 1

-----------------------------------------------------------------------------
(* ZoomTool.handle_event: components/@builtins/utils/zoom.py *)

screen_center == <<SCREEN_WIDTH \div 2, SCREEN_HIGH \div 2>>

\* Slider._update_value_from_pos of the zoom slider (track 260 wide)
ZoomSliderValueAt(s, mouse_x) ==
    LET tx == s.zoom.slider_pos[1]
        clamped_x == Max(tx, Min(mouse_x, tx + 260))
    IN  MIN_ZOOM + ((clamped_x - tx) * (MAX_ZOOM - MIN_ZOOM)) \div 260

\* Slider.handle_event of the zoom slider; s.ret is the value returned
ZoomSlider_handle_event(s, ev) ==
    IF ev.type = "MOUSEBUTTONDOWN" /\ collidepoint(ZoomSliderRect(s), ev.pos)
    THEN [s EXCEPT !.zoom.slider_is_dragging = TRUE,
                   !.zoom.slider_value = ZoomSliderValueAt(s, ev.pos[1]),
                   !.ret = TRUE]
    ELSE IF ev.type = "MOUSEBUTTONUP" /\ s.zoom.slider_is_dragging
    THEN [s EXCEPT !.zoom.slider_is_dragging = FALSE, !.ret = TRUE]
    ELSE IF ev.type = "MOUSEMOTION" /\ s.zoom.slider_is_dragging
    THEN [s EXCEPT !.zoom.slider_value = ZoomSliderValueAt(s, ev.pos[1]),
                   !.ret = TRUE]
    ELSE [s EXCEPT !.ret = FALSE]

\* the wheel branch: is the cursor over the top bar or the toolbar
ZoomWheelOverUI(s) ==
    \/ collidepoint(Rect(0, 0, SCREEN_WIDTH, 40), s.ctx.mouse_pos)
    \/ collidepoint(Rect(0, s.ctx.toolbar_current_y, SCREEN_WIDTH, 80), s.ctx.mouse_pos)

\* ZoomTool.handle_event below the slider: panning, wheel and keys
ZoomCameraEvent(s, ev, mp) ==
    IF ev.type = "MOUSEBUTTONDOWN" /\ ev.button = 2
    THEN [s EXCEPT !.zoom.is_panning = TRUE,
                   !.ctx.is_panning = TRUE,
                   !.zoom.pan_start_pos = mp,
                   !.ctx.pan_start_offset = s.ctx.pan_offset,
                   !.zoom.pan_start_offset = s.ctx.pan_offset,
                   !.ret = TRUE]
    ELSE IF ev.type = "MOUSEBUTTONUP" /\ ev.button = 2
    THEN [s EXCEPT !.zoom.is_panning = FALSE, !.ctx.is_panning = FALSE, !.ret = TRUE]
    ELSE IF ev.type = "MOUSEMOTION" /\ s.zoom.is_panning
    THEN [s EXCEPT
            !.ctx.pan_offset =
                << s.zoom.pan_start_offset[1] + (mp[1] - s.zoom.pan_start_pos[1]) * 100,
                   s.zoom.pan_start_offset[2] + (mp[2] - s.zoom.pan_start_pos[2]) * 100 >>,
            !.ret = TRUE]
    ELSE IF ev.type = "MOUSEWHEEL" /\ ~ZoomWheelOverUI(s)
    THEN IF ev.wy = 0 THEN [s EXCEPT !.ret = TRUE]
         ELSE [ZoomTool_set_zoom(s, IF ev.wy > 0 THEN Min(MAX_ZOOM, s.ctx.zoom_level + 10)
                                    ELSE Max(MIN_ZOOM, s.ctx.zoom_level - 10), mp)
                 EXCEPT !.ret = TRUE]
    ELSE IF ev.type = "KEYDOWN" /\ ev.ctrl /\ ev.key \in {"0", "=", "-"}
    THEN [ZoomTool_set_zoom(s, IF ev.key = "0" THEN 100
                               ELSE IF ev.key = "="
                               THEN Min(MAX_ZOOM, s.ctx.zoom_level + 5)
                               ELSE Max(MIN_ZOOM, s.ctx.zoom_level - 5), mp)
            EXCEPT !.ret = TRUE]
    ELSE [s EXCEPT !.ret = FALSE]

\* ZoomTool.handle_event once the slider (sl) has seen the event
ZoomAfterSlider(s, sl, ev) ==
    IF sl.ret
    THEN [ZoomTool_set_zoom(sl, sl.zoom.slider_value, screen_center) EXCEPT !.ret = TRUE]
    ELSE ZoomCameraEvent(s, ev, s.ctx.mouse_pos)

ZoomTool_handle_event(s, ev) == ZoomAfterSlider(s, ZoomSlider_handle_event(s, ev), ev)

-----------------------------------------------------------------------------
(* PenTool: components/@builtins/tools/Pen/__init__.py *)

\* a tool's call of context["add_history"]
ToolAddHistory(s, action_name) ==
    [add_history(s, action_name) EXCEPT !.strokes = @ + 1]

\* the end of a stroke (MOUSEBUTTONUP while drawing)
PenEndStroke(s) ==
    [(IF s.pen.last_pos # NoPos
      THEN ToolAddHistory([s EXCEPT !.ctx.is_drawing = FALSE], "Pen Stroke")
      ELSE [s EXCEPT !.ctx.is_drawing = FALSE])
        EXCEPT !.pen.last_pos = NoPos, !.ret = TRUE]

\* PenTool._handle_drawing_events
PenTool_handle_drawing_events(s, ev) ==
    IF s.ctx.active_tool_id # PenId THEN [s EXCEPT !.ret = FALSE]
    ELSE IF IsDown1(ev)
    THEN IF ~s.ctx.click_on_ui
         THEN [DrawAt([s EXCEPT !.pen.last_pos = s.ctx.canvas_mouse_pos,
                                !.ctx.is_drawing = TRUE], s.ctx.canvas_mouse_pos)
                 EXCEPT !.ret = TRUE]
         ELSE [s EXCEPT !.ret = FALSE]
    ELSE IF ev.type = "MOUSEBUTTONUP" /\ ev.button = 1
    THEN IF s.ctx.is_drawing THEN PenEndStroke(s) ELSE [s EXCEPT !.ret = FALSE]
    ELSE IF ev.type = "MOUSEMOTION"
    THEN IF s.ctx.is_drawing /\ s.pen.last_pos # NoPos
         THEN [DrawAt(DrawAt(s, s.pen.last_pos), s.ctx.canvas_mouse_pos)
                 EXCEPT !.pen.last_pos = s.ctx.canvas_mouse_pos, !.ret = TRUE]
         ELSE [s EXCEPT !.ret = FALSE]
    ELSE [s EXCEPT !.ret = FALSE]

\* Slider.handle_event of the pen-size slider
PenSlider_handle_event(s, ev) ==
    IF ev.type = "MOUSEBUTTONDOWN" /\ collidepoint(PenSliderRect(s), ev.pos)
    THEN [s EXCEPT !.pen.slider_is_dragging = TRUE, !.ret = TRUE]
    ELSE IF ev.type = "MOUSEBUTTONUP" /\ s.pen.slider_is_dragging
    THEN [s EXCEPT !.pen.slider_is_dragging = FALSE, !.ret = TRUE]
    ELSE IF ev.type = "MOUSEMOTION" /\ s.pen.slider_is_dragging
    THEN [s EXCEPT !.ret = TRUE]
    ELSE [s EXCEPT !.ret = FALSE]

\* InputBox.handle_event after the click test: the Return key
PenInputKey(s, ev) ==
    IF ev.type = "KEYDOWN" /\ s.pen.input_active /\ ev.key = "RETURN"
    THEN [s EXCEPT !.pen.input_active = FALSE, !.ret = TRUE]
    ELSE [s EXCEPT !.ret = FALSE]

\* InputBox.handle_event of the pen-size box; s.ret is value_changed
PenInput_handle_event(s, ev) ==
    PenInputKey(IF ev.type = "MOUSEBUTTONDOWN"
                THEN [s EXCEPT !.pen.input_active =
                          IF collidepoint(PenInputRect(s), ev.pos) THEN ~@ ELSE FALSE]
                ELSE s, ev)

\* PenTool.handle_event with the popup open, once the input box (ib) has seen
\* the event
PenAfterInput(s, ib, ev) ==
    IF ib.ret THEN ib
    ELSE IF ib.pen.input_active THEN [ib EXCEPT !.ret = TRUE]
    ELSE IF ev.type = "MOUSEBUTTONDOWN"
    THEN IF collidepoint(PenModalRect(s), s.ctx.mouse_pos)
         THEN [ib EXCEPT !.ret = TRUE]
         ELSE [ib EXCEPT !.ctx.menu_open = None, !.ret = FALSE]
    ELSE IF collidepoint(PenModalRect(s), s.ctx.mouse_pos) THEN [ib EXCEPT !.ret = TRUE]
    ELSE PenTool_handle_drawing_events(ib, ev)

\* PenTool.handle_event with the popup open, once the slider (sl) has seen it
PenAfterSlider(s, sl, ev) ==
    IF sl.ret THEN sl ELSE PenAfterInput(s, PenInput_handle_event(sl, ev), ev)

\* PenTool.handle_event
PenTool_handle_event(s, ev) ==
    IF IsDown1(ev) /\ collidepoint(PenButtonRect(s), ev.pos)
    THEN [s EXCEPT !.ctx.active_tool_id = PenId,
                   !.ctx.menu_open = IF @ = PenId THEN None ELSE PenId,
                   !.ret = TRUE]
    ELSE IF s.ctx.menu_open # PenId THEN PenTool_handle_drawing_events(s, ev)
    ELSE PenAfterSlider(s, PenSlider_handle_event(s, ev), ev)

-----------------------------------------------------------------------------
(* HandTool.handle_event: components/@builtins/tools/Hand/__init__.py *)

HandTool_handle_event(s, ev) ==
    LET mp == s.ctx.mouse_pos IN
    IF IsDown1(ev) /\ collidepoint(HandButtonRect(s), ev.pos)
    THEN [s EXCEPT !.ctx.active_tool_id = HandId, !.ctx.menu_open = None, !.ret = TRUE]
    ELSE IF s.ctx.active_tool_id # HandId THEN [s EXCEPT !.ret = FALSE]
    ELSE IF ev.type = "MOUSEBUTTONDOWN" /\ ev.button \in {1, 2}
    THEN IF ~s.ctx.click_on_ui
         THEN [s EXCEPT !.ctx.is_panning = TRUE,
                        !.ctx.pan_start_pos = mp,
                        !.ctx.pan_start_offset = s.ctx.pan_offset,
                        !.ctx.is_drawing = TRUE,
                        !.ret = TRUE]
         ELSE [s EXCEPT !.ret = FALSE]
    ELSE IF ev.type = "MOUSEBUTTONUP" /\ ev.button \in {1, 2}
    THEN IF s.ctx.is_panning
         THEN [s EXCEPT !.ctx.is_panning = FALSE, !.ctx.is_drawing = FALSE, !.ret = TRUE]
         ELSE [s EXCEPT !.ret = FALSE]
    ELSE IF ev.type = "MOUSEMOTION"
    THEN IF s.ctx.is_panning
         THEN [s EXCEPT
                 !.ctx.pan_offset =
                     << s.ctx.pan_start_offset[1] + (mp[1] - s.ctx.pan_start_pos[1]) * 100,
                        s.ctx.pan_start_offset[2] + (mp[2] - s.ctx.pan_start_pos[2]) * 100 >>,
                 !.ret = TRUE]
         ELSE [s EXCEPT !.ret = FALSE]
    ELSE [s EXCEPT !.ret = FALSE]

-----------------------------------------------------------------------------
(* ColorPalette: components/@builtins/tools/ColorPalette/__init__.py         *)
(* A colour is the triple (h, s, v) of its HSV form in whole units: h is the *)
(* direction of the hue angle as a pair in lowest terms, s the squared       *)
(* distance from the wheel's centre, capped at the squared radius, and v the *)
(* number of bar rows below the cursor (BAR_HEIGHT - 1 for full value).  An  *)
(* RGB colour is held as the HSV triple colorsys.rgb_to_hsv gives for it.    *)

WHEEL_SIZE == 150
BAR_WIDTH == 30
RECENT_SWATCH_RADIUS == 15
swatch_gap == 10
WheelRadiusSq == (WHEEL_SIZE \div 2) * (WHEEL_SIZE \div 2)
FullValue == WHEEL_SIZE - 1

Abs(n) == IF n < 0 THEN -n ELSE n
RECURSIVE GCD(_, _)
GCD(a, b) == IF b = 0 THEN a ELSE GCD(b, a % b)
\* (math.atan2(dy, dx) / (2 * math.pi)) % 1.0; atan2(0, 0) is 0
HueAngle(dx, dy) ==
    IF dx = 0 /\ dy = 0 THEN <<1, 0>>
    ELSE << dx \div GCD(Abs(dx), Abs(dy)), dy \div GCD(Abs(dx), Abs(dy)) >>

Hsv(h, s, v) == [h |-> h, s |-> s, v |-> v]
Black == Hsv(<<1, 0>>, 0, 0)
\* the list recent_colors starts with (line 162): red, green, blue, yellow,
\* black; the hues 1/3, 2/3 and 1/6 as directions to three decimals
RecentColors0 ==
    << Hsv(<<1, 0>>, WheelRadiusSq, FullValue),
       Hsv(<<-1000, 1732>>, WheelRadiusSq, FullValue),
       Hsv(<<-1000, -1732>>, WheelRadiusSq, FullValue),
       Hsv(<<1000, 1732>>, WheelRadiusSq, FullValue),
       Black >>

\* hsv_to_rgb: value 0 is black whatever the hue and the saturation, and
\* saturation 0 is a grey whatever the hue
hsv_to_rgb(c) ==
    IF c.v = 0 THEN Black
    ELSE IF c.s = 0 THEN Hsv(<<1, 0>>, 0, c.v)
    ELSE c
\* rgb_to_hsv: colorsys gives hue 0 and saturation 0 for black and the greys
rgb_to_hsv(rgb) == rgb

\* ColorPalette.__init__ (lines 162-168); button_x, button_y are button.rect
\* of the third toolbar button
InitPalette ==
    [loaded |-> TRUE, is_dragging_wheel |-> FALSE, is_dragging_bar |-> FALSE,
     recent_colors |-> RecentColors0,
     button_x |-> TOOLBAR_PADDING + 2 * (toolbar_btn_size + toolbar_btn_gap),
     button_y |-> toolbar_hidden_y + 10]
\* the kit of the session does not list the ColorPalette
NoPalette == [InitPalette EXCEPT !.loaded = FALSE]

PaletteButtonRect(s) ==
    Rect(s.palette.button_x, s.palette.button_y, toolbar_btn_size, toolbar_btn_size)

\* ColorPalette._update_popup_rects: the modal above the toolbar, centred on
\* the button and kept inside the screen inflated by (-10, -10)
PaletteModalRect(s) ==
    LET w == 450
        h == 240
        x0 == (s.palette.button_x + toolbar_btn_size \div 2) - w \div 2
        y0 == (s.ctx.toolbar_current_y - 10) - h
        x == Max(5, Min(x0, (SCREEN_WIDTH - 5) - w))
        y == Max(5, Min(y0, (SCREEN_HIGH - 5) - h))
    IN  Rect(x, y, w, h)
PaletteWheelRectIn(modal) == Rect(modal.x + 20, modal.y + 20, WHEEL_SIZE, WHEEL_SIZE)
PaletteWheelRect(s) == PaletteWheelRectIn(PaletteModalRect(s))
PaletteBarRectBy(wheel) == Rect(wheel.x + wheel.w + 20, wheel.y, BAR_WIDTH, WHEEL_SIZE)
PaletteBarRect(s) == PaletteBarRectBy(PaletteWheelRect(s))
\* value_bar_rect.inflate(40, 10) (line 231)
PaletteCheckBarRect(s) ==
    Rect(PaletteBarRect(s).x - 20, PaletteBarRect(s).y - 5, BAR_WIDTH + 40, WHEEL_SIZE + 10)
\* recent_swatches_pos[i] for i in 0 .. 4 (lines 411-415)
PaletteSwatchPos(s, i) ==
    << PaletteModalRect(s).x + 30 + i * (RECENT_SWATCH_RADIUS * 2 + swatch_gap),
       PaletteWheelRect(s).y + WHEEL_SIZE + 35 >>

\* update_color_from_pos (lines 80-120): the new current_hsv
update_color_from_pos(mouse_pos, hsv_in, wheel_rect, bar_rect, drag_mode) ==
    IF drag_mode = "wheel"
    THEN LET dx == mouse_pos[1] - (wheel_rect.x + wheel_rect.w \div 2)
             dy == mouse_pos[2] - (wheel_rect.y + wheel_rect.h \div 2)
         IN  Hsv(HueAngle(dx, dy), Min(dx * dx + dy * dy, WheelRadiusSq), hsv_in.v)
    ELSE IF drag_mode = "bar"
    THEN LET clamped_y == Max(bar_rect.y, Min(mouse_pos[2], bar_rect.y + bar_rect.h - 1))
         IN  Hsv(hsv_in.h, hsv_in.s, (bar_rect.h - 1) - (clamped_y - bar_rect.y))
    ELSE hsv_in

\* lines 242-244 and 278-280
PaletteUpdateColor(s, drag_mode) ==
    LET hsv == update_color_from_pos(s.ctx.mouse_pos, s.ctx.current_hsv,
                                     PaletteWheelRect(s), PaletteBarRect(s), drag_mode)
    IN  [s EXCEPT !.ctx.current_hsv = hsv, !.ctx.draw_color = hsv_to_rgb(hsv)]

\* ColorPalette.add_recent_color
add_recent_color(recent, color) ==
    LET rest == SelectSeq(recent, LAMBDA c : c # color)
    IN  IF Len(rest) + 1 > 5 THEN <<color>> \o SubSeq(rest, 1, 4) ELSE <<color>> \o rest

\* the swatches within RECENT_SWATCH_RADIUS of the cursor (line 249)
PaletteSwatchesHit(s) ==
    {i \in 0 .. Len(s.palette.recent_colors) - 1 :
        LET dx == PaletteSwatchPos(s, i)[1] - s.ctx.mouse_pos[1]
            dy == PaletteSwatchPos(s, i)[2] - s.ctx.mouse_pos[2]
        IN  dx * dx + dy * dy <= RECENT_SWATCH_RADIUS * RECENT_SWATCH_RADIUS}

\* lines 247-254: a click on a recent colour while nothing is dragged
PaletteSwatchClick(s) ==
    IF PaletteSwatchesHit(s) = {} THEN s
    ELSE LET i == CHOOSE k \in PaletteSwatchesHit(s) :
                      \A j \in PaletteSwatchesHit(s) : k <= j
             rgb == s.palette.recent_colors[i + 1]
         IN  [s EXCEPT !.ctx.draw_color = rgb, !.ctx.current_hsv = rgb_to_hsv(rgb),
                       !.palette.recent_colors = add_recent_color(@, rgb)]

\* lines 227-256: a left button-down inside the modal
PaletteModalDown(s) ==
    IF ~s.palette.is_dragging_wheel /\ ~s.palette.is_dragging_bar
    THEN IF collidepoint(PaletteWheelRect(s), s.ctx.mouse_pos)
         THEN PaletteUpdateColor([s EXCEPT !.palette.is_dragging_wheel = TRUE], "wheel")
         ELSE IF collidepoint(PaletteCheckBarRect(s), s.ctx.mouse_pos)
         THEN PaletteUpdateColor([s EXCEPT !.palette.is_dragging_bar = TRUE], "bar")
         ELSE PaletteSwatchClick(s)
    ELSE s

\* lines 283-295: what follows the if/elif chain when no branch has returned
PaletteTail(s, ev) ==
    IF IsDown1(ev) /\ ~collidepoint(PaletteModalRect(s), s.ctx.mouse_pos)
    THEN [s EXCEPT !.ctx.menu_open = None, !.palette.is_dragging_wheel = FALSE,
                   !.palette.is_dragging_bar = FALSE, !.ret = FALSE]
    ELSE [s EXCEPT !.ret = collidepoint(PaletteModalRect(s), s.ctx.mouse_pos)]

\* lines 223-295: the modal is open
PaletteOpenEvent(s, ev) ==
    IF IsDown1(ev)
    THEN IF collidepoint(PaletteModalRect(s), s.ctx.mouse_pos)
         THEN [PaletteModalDown(s) EXCEPT !.ret = TRUE]
         ELSE PaletteTail(s, ev)
    ELSE IF ev.type = "MOUSEBUTTONUP" /\ ev.button = 1
    THEN IF s.palette.is_dragging_wheel \/ s.palette.is_dragging_bar
         THEN [s EXCEPT !.palette.recent_colors = add_recent_color(@, s.ctx.draw_color),
                        !.palette.is_dragging_wheel = FALSE,
                        !.palette.is_dragging_bar = FALSE, !.ret = TRUE]
         ELSE PaletteTail(s, ev)
    ELSE IF ev.type = "MOUSEMOTION"
    THEN IF s.palette.is_dragging_wheel
         THEN [PaletteUpdateColor(s, "wheel") EXCEPT !.ret = TRUE]
         ELSE IF s.palette.is_dragging_bar
         THEN [PaletteUpdateColor(s, "bar") EXCEPT !.ret = TRUE]
         ELSE PaletteTail(s, ev)
    ELSE PaletteTail(s, ev)

\* ColorPalette.handle_event (lines 191-295)
ColorPalette_handle_event(s, ev) ==
    IF IsDown1(ev) /\ collidepoint(PaletteButtonRect(s), ev.pos)
    THEN IF s.ctx.menu_open = PaletteId
         THEN [s EXCEPT !.ctx.menu_open = None, !.ret = TRUE]
         ELSE [s EXCEPT !.ctx.menu_open = PaletteId,
                        !.ctx.current_hsv = rgb_to_hsv(s.ctx.draw_color),
                        !.ret = TRUE]
    ELSE IF s.ctx.menu_open # PaletteId
    THEN [s EXCEPT !.palette.is_dragging_wheel = FALSE,
                   !.palette.is_dragging_bar = FALSE, !.ret = FALSE]
    ELSE PaletteOpenEvent(s, ev)

\* tool_id_to_instance[id].handle_event(event, shared_tool_context)
Tool_handle_event(id, s, ev) ==
    IF id = PenId THEN PenTool_handle_event(s, ev)
    ELSE IF id = HandId THEN HandTool_handle_event(s, ev)
    ELSE IF id = PaletteId THEN ColorPalette_handle_event(s, ev)
    ELSE ZoomTool_handle_event(s, ev)

\* keys of tool_id_to_instance
ToolIds == {PenId, HandId, ZoomId}
tool_id_to_instance(s) == ToolIds \cup (IF s.palette.loaded THEN {PaletteId} ELSE {})
ToolButtonRect(id, s) ==
    IF id = PenId THEN PenButtonRect(s)
    ELSE IF id = PaletteId THEN PaletteButtonRect(s)
    ELSE HandButtonRect(s)

-----------------------------------------------------------------------------
(* The event loop of surface(): one polled event, no dialog open            *)
(* (canvas.py lines 677-948).  Each stage returns the state it leaves; the  *)
(* loop goes on to the next stage only while click_on_ui is false.          *)

Click(s) == [s EXCEPT !.ctx.click_on_ui = TRUE]

\* a handle_event call of the given stage is made for this event
Delivered(s, stage) == [s EXCEPT !.delivered = @ \cup {stage}]

\* "if tool.handle_event(event, context): context['click_on_ui'] = True"
ClickIfHandled(r) == IF r.ret THEN Click(r) ELSE r

\* the first element of a "for ... break" loop over indices
First(indices) == CHOOSE k \in indices : \A j \in indices : k <= j

\* lines 931-944: the active tool
StageActive(s, ev) ==
    IF /\ s.ctx.active_tool_id \in tool_id_to_instance(s)
       /\ ~(ev.type = "KEYUP" /\ ev.key = "SPACE")
    THEN Tool_handle_event(s.ctx.active_tool_id, Delivered(s, "active"), ev)
    ELSE s

\* lines 927-929
AfterClickOff(c, ev) == IF c.ctx.click_on_ui THEN c ELSE StageActive(c, ev)

\* lines 911-925: a click outside the open File or History menu closes it
StageClickOff(s, ev) ==
    IF IsDown1(ev) /\ s.ctx.menu_open \in {"file", "history"}
    THEN IF \E r \in (IF s.ctx.menu_open = "file" THEN file_menu_hot_zone(s)
                      ELSE history_menu_hot_zone) : collidepoint(r, s.ctx.mouse_pos)
         THEN s
         ELSE Click([s EXCEPT !.ctx.menu_open = None])
    ELSE s

\* lines 907-909; t.ret is tool_button_was_clicked
AfterToolbar(t, ev) == IF t.ret THEN t ELSE AfterClickOff(StageClickOff(t, ev), ev)

\* lines 897-905: the toolbar button under the click, if any
ToolbarButtonHit(s, ev) ==
    {k \in 1 .. Len(loaded_tool_instances(s)) :
        collidepoint(ToolButtonRect(loaded_tool_instances(s)[k], s), ev.pos)}
StageToolbar(s, ev) ==
    IF IsDown1(ev) /\ ToolbarButtonHit(s, ev) # {}
    THEN ClickIfHandled(
             Tool_handle_event(loaded_tool_instances(s)[First(ToolbarButtonHit(s, ev))],
                               Delivered(s, "button"), ev))
    ELSE [s EXCEPT !.ret = FALSE]

\* lines 882-895: the tool whose popup is open; the event goes no further
StagePopup(s, ev) ==
    ClickIfHandled(Tool_handle_event(s.ctx.menu_open, Delivered(s, "popup"), ev))

\* variant of StagesFromPopup without the "continue" of lines 893-895
StagesFromPopup_fallthrough(s, ev) ==
    AfterToolbar(StageToolbar(IF s.ctx.menu_open \in tool_id_to_instance(s)
                              THEN StagePopup(s, ev)
                              ELSE s, ev), ev)

\* lines 882-948
StagesFromPopup(s, ev) ==
    IF s.ctx.menu_open \in tool_id_to_instance(s) THEN StagePopup(s, ev)
    ELSE AfterToolbar(StageToolbar(s, ev), ev)

\* the "continue" of lines 797-799 and 857-859; m.ret tells whether it was taken
AfterMenus(m, ev) == IF m.ret THEN m ELSE StagesFromPopup(m, ev)

\* lines 835-849: what the File menu button with this text does
FileMenuAction(s, text, io) ==
    IF text = "New Whiteboard"
    THEN IF s.is_dirty THEN set_dialog(s, "confirm_action", "new_canvas")
         ELSE clear_canvas(s)
    ELSE IF text = "Open From..."
    THEN IF s.is_dirty THEN set_dialog(s, "confirm_action", "open_file")
         ELSE open_file(s, io)
    ELSE IF text = "Save" THEN save_vecbo(s, io)
    ELSE IF text = "Save as... (.vecbo)" THEN save_as_vecbo(s, io)
    ELSE IF text = "Export as... (.png)" THEN export_as_image(s)
    ELSE IF s.is_dirty THEN set_dialog(s, "confirm_action", "exit")
         ELSE [s EXCEPT !.running = FALSE]

\* the File menu buttons under the cursor
FileMenuHit(s) ==
    {k \in 1 .. Len(FileMenuItems(s)) : collidepoint(FileMenuItemRect(k), s.ctx.mouse_pos)}

\* lines 801-859: a left click while the File menu is open
FileMenuClick(s, io) ==
    IF FileMenuHit(s) # {}
    THEN Click([FileMenuAction(s, FileMenuItems(s)[First(FileMenuHit(s))], io)
                  EXCEPT !.ctx.menu_open = None])
    ELSE IF \E r \in file_menu_hot_zone(s) : collidepoint(r, s.ctx.mouse_pos)
    THEN Click(s)
    ELSE s

\* the rows of the History menu: clip_rect is the placeholder inflated by
\* (-4, -2 * HISTORY_MENU_PADDING)
HistoryItemRect(i) ==
    Rect(history_placeholder_rect.x + 2,
         history_placeholder_rect.y + HISTORY_MENU_PADDING + i * HISTORY_ITEM_HEIGHT,
         history_placeholder_rect.w - 4, HISTORY_ITEM_HEIGHT)

\* the visible rows that show an entry and lie under the cursor
HistoryRowsHit(s) ==
    {i \in 0 .. MAX_VISIBLE_HISTORY_ITEMS - 1 :
        /\ s.history_scroll_offset + i < Len(s.history)
        /\ collidepoint(HistoryItemRect(i), s.ctx.mouse_pos)}

\* variant of HistoryMenuClick that takes the row for the index
HistoryMenuClick_unscrolled(s) ==
    IF collidepoint(history_placeholder_rect, s.ctx.mouse_pos)
    THEN IF HistoryRowsHit(s) # {}
         THEN [Click(set_history_state(s, First(HistoryRowsHit(s))))
                 EXCEPT !.ctx.menu_open = None]
         ELSE Click(s)
    ELSE s

\* lines 862-880: a left click while the History menu is open
HistoryMenuClick(s) ==
    IF collidepoint(history_placeholder_rect, s.ctx.mouse_pos)
    THEN IF HistoryRowsHit(s) # {}
         THEN [Click(set_history_state(s, s.history_scroll_offset + First(HistoryRowsHit(s))))
                 EXCEPT !.ctx.menu_open = None]
         ELSE Click(s)
    ELSE s

\* lines 857-859: "continue" if the File menu took the click
ContinueIfClicked(r) == [r EXCEPT !.ret = r.ctx.click_on_ui]

\* lines 786-880: a left click on the top bar or in an open menu
StageMenus(s, ev, io) ==
    IF ~IsDown1(ev) THEN [s EXCEPT !.ret = FALSE]
    ELSE IF collidepoint(file_btn_rect, ev.pos)
    THEN [s EXCEPT !.ctx.menu_open = IF @ # "file" THEN "file" ELSE None,
                   !.ctx.click_on_ui = TRUE, !.ret = TRUE]
    ELSE IF collidepoint(history_btn_rect, ev.pos)
    THEN [s EXCEPT !.ctx.menu_open = IF @ # "history" THEN "history" ELSE None,
                   !.ctx.click_on_ui = TRUE, !.ret = TRUE]
    ELSE IF s.ctx.menu_open = "file"
    THEN ContinueIfClicked(FileMenuClick(s, io))
    ELSE IF s.ctx.menu_open = "history"
    THEN [HistoryMenuClick(s) EXCEPT !.ret = FALSE]
    ELSE [s EXCEPT !.ret = FALSE]

\* lines 782-784
AfterKeys(e, ev, io) ==
    IF e.ctx.click_on_ui THEN e ELSE AfterMenus(StageMenus(e, ev, io), ev)

\* lines 744-780: keyboard shortcuts
StageKeys(s, ev) ==
    IF ev.type = "KEYDOWN"
    THEN IF s.hand_tool_id # None /\ ev.key = "SPACE"
         THEN IF s.ctx.active_tool_id # s.hand_tool_id
              THEN Click([s EXCEPT !.ctx.previous_tool_id = s.ctx.active_tool_id,
                                   !.ctx.active_tool_id = s.hand_tool_id])
              ELSE s
         ELSE IF ev.key = "z"
         THEN IF ev.ctrl THEN (IF ev.shift THEN redo(s) ELSE undo(s)) ELSE s
         ELSE IF ev.key = "y"
         THEN IF ev.ctrl /\ ~ev.shift THEN redo(s) ELSE s
         ELSE IF ev.key = "e" /\ ev.shift THEN export_as_image(s)
         ELSE s
    ELSE IF ev.type = "KEYUP"
    THEN IF s.hand_tool_id # None /\ ev.key = "SPACE"
         THEN Click(IF s.ctx.active_tool_id = s.hand_tool_id
                    THEN [s EXCEPT !.ctx.active_tool_id = s.ctx.previous_tool_id,
                                   !.ctx.is_panning = FALSE]
                    ELSE s)
         ELSE s
    ELSE s

\* lines 740-742
AfterHover(d, ev, io) ==
    IF d.ctx.click_on_ui THEN d ELSE AfterKeys(StageKeys(d, ev), ev, io)

\* lines 729-738: hovering switches between the File and History menus
StageHover(s, ev) ==
    IF ev.type = "MOUSEMOTION" /\ s.ctx.menu_open # None
    THEN IF collidepoint(file_btn_rect, s.ctx.mouse_pos) /\ s.ctx.menu_open # "file"
         THEN Click([s EXCEPT !.ctx.menu_open = "file"])
         ELSE IF /\ collidepoint(history_btn_rect, s.ctx.mouse_pos)
                 /\ s.ctx.menu_open # "history"
         THEN Click([s EXCEPT !.ctx.menu_open = "history"])
         ELSE s
    ELSE s

\* lines 725-727
AfterUtility(c, ev, io) ==
    IF c.ctx.click_on_ui THEN c ELSE AfterHover(StageHover(c, ev), ev, io)

RECURSIVE UtilityFrom(_, _, _)
\* lines 721-723: the k-th utility tool has returned r
UtilityNext(r, ev, k) == IF r.ret THEN Click(r) ELSE UtilityFrom(r, ev, k + 1)

\* lines 720-723: the utility tools from the k-th on, until one handles the event
UtilityFrom(s, ev, k) ==
    IF k > Len(utility_tools_to_draw(s)) THEN [s EXCEPT !.ret = FALSE]
    ELSE UtilityNext(Tool_handle_event(utility_tools_to_draw(s)[k],
                                       Delivered(s, "utility"), ev), ev, k)

\* lines 718-723: utility tools come first
StageUtility(s, ev) == UtilityFrom(s, ev, 1)

\* lines 714-716
AfterWheel(b, ev, io) ==
    IF b.ctx.click_on_ui THEN b ELSE AfterUtility(StageUtility(b, ev), ev, io)

\* lines 699-712: the wheel over the History menu or over the bars
StageWheel(s, ev) ==
    IF ev.type # "MOUSEWHEEL" THEN s
    ELSE IF /\ s.ctx.menu_open = "history"
            /\ collidepoint(history_placeholder_rect, s.ctx.mouse_pos)
    THEN Click([s EXCEPT !.history_scroll_offset =
                   IF ev.wy > 0 THEN Max(0, @ - 1)
                   ELSE IF ev.wy < 0
                   THEN Min(Max(0, Len(s.history) - MAX_VISIBLE_HISTORY_ITEMS), @ + 1)
                   ELSE @])
    ELSE IF \/ collidepoint(top_bar_rect, s.ctx.mouse_pos)
            \/ collidepoint(toolbar_rect(s), s.ctx.mouse_pos)
    THEN Click(s)
    ELSE s

\* lines 694-697: an earlier event of the frame set click_on_ui, or QUIT did
AfterQuit(a, ev, io) ==
    IF a.ctx.click_on_ui THEN a ELSE AfterWheel(StageWheel(a, ev), ev, io)

\* lines 686-692: window close
StageQuit(s, ev) ==
    IF ev.type = "QUIT"
    THEN IF s.is_dirty THEN Click(set_dialog(s, "confirm_action", "exit"))
         ELSE [s EXCEPT !.running = FALSE]
    ELSE s

\* nothing has been delivered yet for the event about to be handled
BeginEvent(s) == [s EXCEPT !.delivered = {}, !.ret = FALSE]

\* the event is a left button-down on the wheel or the value bar of the open
\* colour popup, or a left button-up
Observe(s, ev) ==
    IF /\ IsDown1(ev)
       /\ s.palette.loaded
       /\ s.ctx.menu_open = PaletteId
       /\ \/ collidepoint(PaletteWheelRect(s), s.ctx.mouse_pos)
          \/ collidepoint(PaletteCheckBarRect(s), s.ctx.mouse_pos)
    THEN [s EXCEPT !.drag_held = TRUE]
    ELSE IF ev.type = "MOUSEBUTTONUP" /\ ev.button = 1
    THEN [s EXCEPT !.drag_held = FALSE]
    ELSE s

\* one iteration of "for event in events[:]" (lines 678-948)
normal_event(s, ev, io) ==
    IF ev.type = "USEREVENT1" THEN open_file(BeginEvent(s), io)
    ELSE AfterQuit(StageQuit(BeginEvent(Observe(s, ev)), ev), ev, io)

-----------------------------------------------------------------------------
(* The dialog loop of surface(): one polled event while a dialog is open    *)
(* (canvas.py lines 635-674)                                                *)

\* Button.is_clicked for the first dialog button under the click, or None
DialogActionTaken(ev) ==
    LET hit == {k \in 1 .. Len(dialog_buttons) :
                   Button_is_clicked(dialog_buttons[k].rect, ev)}
    IN  IF hit = {} THEN None
        ELSE dialog_buttons[CHOOSE k \in hit : \A j \in hit : k <= j].name

\* lines 652-654 and 662-664: the action the dialog was opened for
PerformPendingAction(s, io) ==
    IF s.dialog_pending_action = "new_canvas" THEN clear_canvas(s)
    ELSE IF s.dialog_pending_action = "open_file" THEN open_file(s, io)
    ELSE IF s.dialog_pending_action = "exit" THEN [s EXCEPT !.running = FALSE]
    ELSE s

\* lines 656-664: the Save button
DialogAfterSave(saved, io) ==
    IF ~saved.is_dirty
    THEN PerformPendingAction([saved EXCEPT !.dialog_state = None], io)
    ELSE saved

\* lines 644-667
DialogAction(s, action_taken, io) ==
    IF action_taken = "cancel"
    THEN [s EXCEPT !.dialog_state = None, !.dialog_pending_action = None]
    ELSE IF action_taken = "dont_save"
    THEN PerformPendingAction([s EXCEPT !.dialog_state = None], io)
    ELSE IF action_taken = "save"
    THEN DialogAfterSave(IF s.current_project_path # None THEN save_vecbo(s, io)
                         ELSE save_as_vecbo(s, io), io)
    ELSE s

\* variant of dialog_event that hands the events the dialog has no use for to
\* the normal loop
dialog_event_leaking(s, ev, io) ==
    IF IsDown1(ev) /\ DialogActionTaken(ev) # None
    THEN Click(DialogAction(BeginEvent(Observe(s, ev)), DialogActionTaken(ev), io))
    ELSE normal_event(s, ev, io)

\* one iteration of the loop at lines 636-670, and of the one at line 673
dialog_event(s, ev, io) ==
    IF IsDown1(ev)
    THEN Click(DialogAction(BeginEvent(Observe(s, ev)), DialogActionTaken(ev), io))
    ELSE BeginEvent(Observe(s, ev))

-----------------------------------------------------------------------------
(* The frame: polling (lines 625-631) and the state updates (lines 950-1030) *)

poll(s, mouse_pos) ==
    [s EXCEPT !.ctx.mouse_pos = mouse_pos, !.ctx.click_on_ui = FALSE]

\* lines 1003-1012
toolbar_target_y(s) ==
    IF s.ctx.menu_open # None \/ s.dialog_state # None THEN toolbar_visible_y
    ELSE IF s.ctx.is_drawing THEN toolbar_hidden_y
    ELSE IF \/ s.ctx.mouse_pos[2] > SCREEN_HIGH - 20
            \/ collidepoint(toolbar_rect(s), s.ctx.mouse_pos)
    THEN toolbar_visible_y
    ELSE toolbar_hidden_y

\* round(lerp(a, b, 0.2)): a + (b - a) / 5 rounded to the nearest integer (the
\* fraction is a multiple of 1/5, never a half)
lerp_round(a, b) == ((4 * a + b) * 2 + 5) \div 10

\* lines 1016-1025: the toolbar and the tool buttons move to y
MoveToolbar(s, y) ==
    [s EXCEPT !.ctx.toolbar_current_y = y,
              !.pen.button_y = y + 10,
              !.palette.button_y = IF s.palette.loaded THEN y + 10 ELSE @,
              !.hand.button_x = IF s.hand_tool_id = HandId
                                THEN zoom_slider_x_start(s) ELSE @,
              !.hand.button_y = IF s.hand_tool_id = HandId THEN y + 25 ELSE y + 10,
              !.zoom.slider_pos = <<zoom_slider_x_start(s), y + 25>>]

\* lines 999-1025
SlideToolbar(s) ==
    MoveToolbar(s, lerp_round(s.ctx.toolbar_current_y, toolbar_target_y(s)))

\* variant of the state updates without lines 1028-1029
end_frame_unconstrained(s, dialog_frame) ==
    SlideToolbar(IF dialog_frame THEN Click(s) ELSE s)

\* lines 950-1030; in a frame that began with a dialog open, line 674 comes first
end_frame(s, dialog_frame) ==
    ZoomTool_apply_constraints(SlideToolbar(IF dialog_frame THEN Click(s) ELSE s))

-----------------------------------------------------------------------------
(* The session as one record, and the state after construction              *)

S == [running |-> running, is_dirty |-> is_dirty,
      current_project_path |-> current_project_path,
      dialog_state |-> dialog_state,
      dialog_pending_action |-> dialog_pending_action,
      history |-> history, history_index |-> history_index,
      history_scroll_offset |-> history_scroll_offset,
      drawing_surface |-> drawing_surface, hand_tool_id |-> hand_tool_id,
      ctx |-> ctx, pen |-> pen, hand |-> hand, zoom |-> zoom,
      palette |-> palette, drag_held |-> drag_held,
      ret |-> FALSE, delivered |-> delivered, strokes |-> strokes]

Commit(r) ==
    /\ running' = r.running
    /\ is_dirty' = r.is_dirty
    /\ current_project_path' = r.current_project_path
    /\ dialog_state' = r.dialog_state
    /\ dialog_pending_action' = r.dialog_pending_action
    /\ history' = r.history
    /\ history_index' = r.history_index
    /\ history_scroll_offset' = r.history_scroll_offset
    /\ drawing_surface' = r.drawing_surface
    /\ hand_tool_id' = r.hand_tool_id
    /\ ctx' = r.ctx
    /\ pen' = r.pen
    /\ hand' = r.hand
    /\ zoom' = r.zoom
    /\ palette' = r.palette
    /\ drag_held' = r.drag_held
    /\ delivered' = r.delivered
    /\ strokes' = r.strokes
    /\ UNCHANGED <<loaded_tool_plugins, injected, kit_objects, tools, root,
                   loaders_run, components>>

\* shared_tool_context as built at lines 486-507 and 613-615
InitCtx ==
    [mouse_pos |-> <<0, 0>>, click_on_ui |-> FALSE,
     active_tool_id |-> PenId, previous_tool_id |-> PenId,
     menu_open |-> None, is_drawing |-> FALSE, is_panning |-> FALSE,
     zoom_level |-> 100,
     pan_offset |-> << ((SCREEN_WIDTH - WORLD_WIDTH) * 100) \div 2,
                       ((SCREEN_HIGH - WORLD_HEIGHT) * 100) \div 2 >>,
     canvas_mouse_pos |-> <<0, 0>>,
     draw_color |-> Black, current_hsv |-> Black,
     pan_start_pos |-> <<0, 0>>, pan_start_offset |-> <<0, 0>>,
     toolbar_current_y |-> toolbar_visible_y]

\* the tools as instantiated at lines 531-561
InitPen == [last_pos |-> NoPos, slider_is_dragging |-> FALSE, input_active |-> FALSE,
            button_y |-> toolbar_hidden_y + 10]
InitHand == [button_x |-> toolbar_btn_x_after(1), button_y |-> toolbar_hidden_y + 10]
InitZoom == [is_panning |-> FALSE, pan_start_pos |-> <<0, 0>>,
             pan_start_offset |-> <<0, 0>>, slider_value |-> 100,
             slider_is_dragging |-> FALSE,
             slider_pos |-> <<toolbar_btn_x_after(2), toolbar_hidden_y + 10>>]

\* the four injected_* placeholders of the camera (lines 108-111)
CameraSlots == {"screen_to_canvas", "canvas_to_screen", "set_zoom", "apply_constraints"}

\* the session when the main loop is entered (lines 486-517, 612-615)
Startup ==
    [running |-> TRUE, is_dirty |-> FALSE, current_project_path |-> None,
     dialog_state |-> None, dialog_pending_action |-> None,
     history |-> << [surf |-> [obj |-> 1, pix |-> Blank,
                                  size |-> <<WORLD_WIDTH, WORLD_HEIGHT>>],
                        label |-> "Initial"] >>,
     history_index |-> 0, history_scroll_offset |-> 0,
     drawing_surface |-> [obj |-> 0, pix |-> Blank, size |-> <<WORLD_WIDTH, WORLD_HEIGHT>>],
     hand_tool_id |-> None,
     ctx |-> InitCtx, pen |-> InitPen, hand |-> InitHand, zoom |-> InitZoom,
     palette |-> NoPalette, drag_held |-> FALSE,
     ret |-> FALSE, delivered |-> {}, strokes |-> 0]

\* the variables hold session r
Resume(r) ==
    /\ running = r.running
    /\ is_dirty = r.is_dirty
    /\ current_project_path = r.current_project_path
    /\ dialog_state = r.dialog_state
    /\ dialog_pending_action = r.dialog_pending_action
    /\ history = r.history
    /\ history_index = r.history_index
    /\ history_scroll_offset = r.history_scroll_offset
    /\ drawing_surface = r.drawing_surface
    /\ hand_tool_id = r.hand_tool_id
    /\ ctx = r.ctx
    /\ pen = r.pen
    /\ hand = r.hand
    /\ zoom = r.zoom
    /\ palette = r.palette
    /\ drag_held = r.drag_held
    /\ delivered = {}

\* kits.components() is not running: an empty directory, nothing collected
NoScan ==
    /\ root = [kits |-> << >>, has_initial |-> FALSE]
    /\ loaders_run = {}
    /\ components = << >>

\* at the top of the loop, nothing counted yet
AtLoopTop ==
    /\ phase = "poll"
    /\ loaded_tool_plugins = << >>
    /\ injected = CameraSlots
    /\ kit_objects = << >>
    /\ tools = << >>
    /\ NoScan
    /\ strokes = 0
    /\ cam_moves = 0
    /\ polled = 0
    /\ ops = 0

Init ==
    /\ Resume(Startup)
    /\ AtLoopTop
    /\ frame = 0

-----------------------------------------------------------------------------
(* The inputs: cursor positions, events, answers of the file dialogs        *)

P_FILE == <<50, 20>>
P_HIST == <<150, 20>>
P_ITEM0 == <<150, 60>>
P_ITEM1 == <<150, 85>>
P_SAVE == <<684, 529>>
P_DONT == <<834, 529>>
P_CANCEL == <<984, 529>>
Positions == {P_FILE, P_HIST, P_ITEM0, P_ITEM1, P_SAVE, P_DONT, P_CANCEL}

\* the events polled in a frame: the mouse events carry the cursor position
\* polled with them
Events ==
    {MouseDown(1, ctx.mouse_pos), MouseUp(1, ctx.mouse_pos), MouseMotion(ctx.mouse_pos),
     MouseWheel(1), MouseWheel(-1), QuitEvent,
     KeyDown("z", TRUE, FALSE), KeyDown("z", TRUE, TRUE), KeyDown("y", TRUE, FALSE)}

\* the answers nobody asks for
IdleIO == [open |-> [kind |-> "cancel"], save_as |-> None, write |-> "ok"]

\* the camera moved in a handler
CameraMoved(r) ==
    r.ctx.zoom_level # ctx.zoom_level \/ r.ctx.pan_offset # ctx.pan_offset

\* the budgets of a step from S to r
WithinBudget(r) ==
    /\ r.strokes <= MaxStrokes
    /\ CameraMoved(r) => cam_moves < MaxCameraMoves
CountCamera(r) == cam_moves' = IF CameraMoved(r) THEN cam_moves + 1 ELSE cam_moves

-----------------------------------------------------------------------------
(* Actions: the steps of "while running" *)

PollFrame(mouse_pos) ==
    /\ phase = "poll"
    /\ frame < MaxFrames
    /\ Commit([poll(S, mouse_pos) EXCEPT !.delivered = {}])
    /\ phase' = IF dialog_state # None THEN "dialog" ELSE "events"
    /\ frame' = frame + 1
    /\ polled' = 0
    /\ UNCHANGED <<cam_moves, ops>>

DialogEvent(ev, io) ==
    /\ phase = "dialog"
    /\ polled < MaxEventsPerFrame
    /\ \E r \in {dialog_event(S, ev, io)} :
          WithinBudget(r) /\ Commit(r) /\ CountCamera(r)
    /\ polled' = polled + 1
    /\ UNCHANGED <<phase, frame, ops>>

NormalEvent(ev, io) ==
    /\ phase = "events"
    /\ polled < MaxEventsPerFrame
    /\ \E r \in {normal_event(S, ev, io)} :
          WithinBudget(r) /\ Commit(r) /\ CountCamera(r)
    /\ polled' = polled + 1
    /\ UNCHANGED <<phase, frame, ops>>

EndFrame ==
    /\ phase \in {"events", "dialog"}
    /\ Commit([end_frame(S, phase = "dialog") EXCEPT !.delivered = {}])
    /\ phase' = IF running THEN "poll" ELSE "done"
    /\ UNCHANGED <<cam_moves, frame, polled, ops>>

Next ==
    \/ \E p \in Positions : PollFrame(p)
    \/ \E ev \in Events :
          \E io \in (IF IsDown1(ev) THEN IOs ELSE {IdleIO}) : DialogEvent(ev, io)
    \/ \E ev \in Events :
          \E io \in (IF IsDown1(ev) /\ ctx.menu_open = "file" THEN IOs ELSE {IdleIO}) :
              NormalEvent(ev, io)
    \/ EndFrame

Spec == Init /\ [][Next]_vars

-----------------------------------------------------------------------------
(* Sessions in progress: states the loop reaches from Startup, obtained by  *)
(* running whole frames (lines 624-1030) on it                              *)

RECURSIVE handle_events(_, _, _, _)
\* the loop at lines 636-674 (dialog_open) or the one at lines 678-948
handle_events(s, events, io, dialog_open) ==
    IF events = <<>> THEN s
    ELSE handle_events(IF dialog_open THEN dialog_event(s, Head(events), io)
                       ELSE normal_event(s, Head(events), io),
                       Tail(events), io, dialog_open)

\* one iteration of "while running"
run_frame(s, mouse_pos, events, io) ==
    [end_frame(handle_events(poll(s, mouse_pos), events, io, s.dialog_state # None),
               s.dialog_state # None)
        EXCEPT !.delivered = {}, !.ret = FALSE, !.strokes = 0]

\* a frame with a press and a release at p, and a frame with a press at p
StrokeAt(s, p) == run_frame(s, p, <<MouseDown(1, p), MouseUp(1, p)>>, IdleIO)
ClickAt(s, p) == run_frame(s, p, <<MouseDown(1, p)>>, IdleIO)

RECURSIVE Strokes(_, _)
\* n more strokes, the first on a blank surface at P_SAVE, the others at P_DONT
Strokes(s, n) ==
    IF n = 0 THEN s
    ELSE IF s.drawing_surface.pix = Blank
         THEN Strokes(StrokeAt(s, P_SAVE), n - 1)
         ELSE Strokes(StrokeAt(s, P_DONT), n - 1)

\* one stroke drawn, then the dialog opened from File > New Whiteboard, from
\* File > Open From... or by closing the window
DialogSessions ==
    { ClickAt(ClickAt(Strokes(Startup, 1), P_FILE), P_ITEM0),
      ClickAt(ClickAt(Strokes(Startup, 1), P_FILE), P_ITEM1),
      run_frame(Strokes(Startup, 1), P_DONT, <<QuitEvent>>, IdleIO) }

\* more strokes than the History menu shows rows, then the menu opened
MenuStrokes == 11
MenuSessions == { ClickAt(Strokes(Startup, MenuStrokes), P_HIST) }

\* the frames a resumed session is followed for
ResumedFrames == 2

InitResumed ==
    /\ \E r \in DialogSessions \cup MenuSessions : Resume(r)
    /\ AtLoopTop
    /\ frame = MaxFrames - ResumedFrames

ResumedSpec == InitResumed /\ [][Next]_vars

-----------------------------------------------------------------------------
(* Properties of the dispatch pipeline *)

\* what C1 says no event of a dialog frame may touch
DialogGuarded ==
    <<drawing_surface, history, history_index, ctx.zoom_level, ctx.pan_offset,
      ctx.menu_open, ctx.active_tool_id>>

\* the step is a left click on one of the dialog's buttons
DialogButtonStep ==
    \E ev \in Events : \E io \in IOs :
        /\ IsDown1(ev)
        /\ DialogActionTaken(ev) # None
        /\ DialogEvent(ev, io)

\* C1: in a frame that began with the dialog open, no event is delivered to a
\* utility tool, a popup, a toolbar button or the active tool, and the drawing
\* surface, history, history_index, zoom_level, pan_offset, menu_open and
\* active_tool_id change only in a step that is a left click on a dialog button
C1_DialogOwnsEvents ==
    [][phase = "dialog" =>
          /\ delivered' = {}
          /\ (DialogGuarded' = DialogGuarded \/ DialogButtonStep)]_vars

\* C1 witness: two events were handled in a dialog frame with the cursor on
\* the canvas, away from the dialog's buttons, and the dialog is still open
C1_Witness ==
    /\ phase = "dialog"
    /\ polled = 2
    /\ dialog_state # None
    /\ DialogActionTaken(MouseDown(1, ctx.mouse_pos)) = None

\* C2: in a frame without dialog an event is delivered to the stages it would
\* be delivered to if it were the first event of the frame (click_on_ui as
\* polling leaves it), whatever the earlier events of the frame did
C2_PerEventDispatch ==
    [][\A ev \in Events :
          (phase = "events" /\ NormalEvent(ev, IdleIO))
              => delivered' = normal_event(poll(S, ctx.mouse_pos), ev, IdleIO).delivered]_vars

\* the cursor is on row i of the open History menu and row i shows an entry
OnHistoryRow(i) ==
    /\ ctx.menu_open = "history"
    /\ i \in 0 .. MAX_VISIBLE_HISTORY_ITEMS - 1
    /\ history_scroll_offset + i < Len(history)
    /\ collidepoint(HistoryItemRect(i), ctx.mouse_pos)

-----------------------------------------------------------------------------
(* HistSpec: the history engine, its functions called one at a time on      *)
(* sessions with short, nearly full and full stacks                         *)

\* a completed stroke: the tool draws on the live surface at cpos and calls
\* add_history when the stroke ends
Stroke(s, cpos) == add_history(DrawAt(s, cpos), "Pen Stroke")

\* the engine after n more strokes, the first on a blank surface in the left
\* cell and the others in the right cell
RECURSIVE Drawn(_, _)
Drawn(s, n) ==
    IF n = 0 THEN s
    ELSE IF s.drawing_surface.pix = Blank
         THEN Drawn(Stroke(s, <<0, 0>>), n - 1)
         ELSE Drawn(Stroke(s, <<(WORLD_WIDTH \div 2) * 100, 0>>), n - 1)

\* sessions after no stroke, one, two, and after enough strokes to leave the
\* stack one short of full, full, and full with two entries evicted
HistSessions ==
    { Drawn(Startup, n) :
        n \in {0, 1, 2, MAX_HISTORY_SIZE - 2, MAX_HISTORY_SIZE - 1, MAX_HISTORY_SIZE + 1} }

InitHist ==
    /\ \E r \in HistSessions : Resume(r)
    /\ AtLoopTop
    /\ frame = 0

\* world positions a tool draws at, one in each cell
WorldPoints == { <<0, 0>>, <<(WORLD_WIDTH \div 2) * 100, 0>> }
\* the action names tools pass to add_history
Labels == {"Pen Stroke", "Eraser Stroke"}
\* what askopenfilename and the file may answer
OpenIOs == [open : OpenAnswers, save_as : {None}, write : {"ok"}]

HistStep(r) ==
    /\ ops < MaxHistOps
    /\ Commit(r)
    /\ ops' = ops + 1
    /\ UNCHANGED <<phase, cam_moves, frame, polled>>

HistDraw(cpos) == HistStep(DrawAt(S, cpos))
HistAdd(label) == HistStep(add_history(S, label))
HistUndo == HistStep(undo(S))
HistRedo == HistStep(redo(S))
\* the entries the History menu can show with the current scroll offset
HistJump(k) ==
    /\ history_scroll_offset <= k
    /\ k < history_scroll_offset + MAX_VISIBLE_HISTORY_ITEMS
    /\ k < Len(history)
    /\ HistStep(set_history_state(S, k))
HistClear == HistStep(clear_canvas(S))
HistOpen(io) == HistStep(open_file(S, io))

NextHist ==
    \/ \E cpos \in WorldPoints : HistDraw(cpos)
    \/ \E label \in Labels : HistAdd(label)
    \/ HistUndo
    \/ HistRedo
    \/ \E k \in 0 .. MAX_HISTORY_SIZE - 1 : HistJump(k)
    \/ HistClear
    \/ \E io \in OpenIOs : HistOpen(io)

HistSpec == InitHist /\ [][NextHist]_vars

-----------------------------------------------------------------------------
(* CamSpec: the camera, through ZoomTool.handle_event and through the        *)
(* methods ZoomTool injects into the canvas                                  *)

\* cursor positions: on the canvas and on the zoom slider as first laid out
P_SLIDER == <<290, 900>>
CamPositions == {P_DONT, P_ITEM1, P_SLIDER}
\* zoom levels asked of the injected set_zoom, below, inside and above the range
ZoomRequests == {25, 80, 275}

CamEvents ==
    {MouseWheel(1), MouseWheel(-1),
     KeyDown("0", TRUE, FALSE), KeyDown("=", TRUE, FALSE), KeyDown("-", TRUE, FALSE),
     MouseDown(1, ctx.mouse_pos), MouseMotion(ctx.mouse_pos), MouseUp(1, ctx.mouse_pos),
     MouseDown(2, ctx.mouse_pos), MouseUp(2, ctx.mouse_pos)}

CamStep(r) ==
    /\ ops < MaxCamOps
    /\ Commit(r)
    /\ ops' = ops + 1
    /\ UNCHANGED <<phase, cam_moves, frame, polled>>

CamPoll(mouse_pos) == CamStep(poll(S, mouse_pos))
CamEvent(ev) == CamStep(ZoomTool_handle_event(S, ev))
\* ZoomTool.canvas_set_zoom(instance, context, new_zoom, pivot_pos)
CamSetZoom(new_zoom, pivot_pos) == CamStep(ZoomTool_set_zoom(S, new_zoom, pivot_pos))
\* ZoomTool.canvas_apply_constraints(instance, context, world_size)
CamConstrain == CamStep(ZoomTool_apply_constraints(S))

NextCam ==
    \/ \E p \in CamPositions : CamPoll(p)
    \/ \E ev \in CamEvents : CamEvent(ev)
    \/ \E z \in ZoomRequests : \E p \in CamPositions : CamSetZoom(z, p)
    \/ CamConstrain

CamSpec == Init /\ [][NextCam]_vars

-----------------------------------------------------------------------------
(* Properties of the history engine, checked in HistSpec *)

\* C3: add_history(label) called at history_index = i, when no entry has to
\* be evicted (i + 1 < MAX_HISTORY_SIZE), leaves exactly the entries 0..i
\* followed by one new entry that carries the label and the content of the
\* live surface; history_index points at the new last entry
C3_HistoryLinear ==
    [][\A label \in Labels :
        (history_index + 1 < MAX_HISTORY_SIZE /\ HistAdd(label)) =>
            /\ Len(history') = history_index + 2
            /\ SubSeq(history', 1, history_index + 1) = SubSeq(history, 1, history_index + 1)
            /\ history'[history_index + 2].label = label
            /\ history'[history_index + 2].surf.pix = drawing_surface.pix
            /\ history_index' = history_index + 1]_vars

\* an entry appended after going back in a stack of MAX_HISTORY_SIZE - 1
\* entries: the stack is shorter than any session started with that many
C3_Witness ==
    /\ Len(history) = MAX_HISTORY_SIZE - 2
    /\ history_index = MAX_HISTORY_SIZE - 3
    /\ history[Len(history)].label = "Eraser Stroke"
    /\ history[1].label = "Initial"

\* C4: the stack never holds more than MAX_HISTORY_SIZE entries; add_history
\* on a full stack with history_index at the last entry drops the oldest
\* entry, keeps the other 29 in order, appends the new entry and points
\* history_index at it
C4_BoundedHistory ==
    /\ [](Len(history) <= MAX_HISTORY_SIZE)
    /\ [][\A label \in Labels :
            (/\ Len(history) = MAX_HISTORY_SIZE
             /\ history_index = MAX_HISTORY_SIZE - 1
             /\ HistAdd(label)) =>
                /\ Len(history') = MAX_HISTORY_SIZE
                /\ SubSeq(history', 1, MAX_HISTORY_SIZE - 1) = SubSeq(history, 2, MAX_HISTORY_SIZE)
                /\ history'[MAX_HISTORY_SIZE].label = label
                /\ history'[MAX_HISTORY_SIZE].surf.pix = drawing_surface.pix
                /\ history_index' = MAX_HISTORY_SIZE - 1]_vars

\* the stack that was exactly full, after one more add_history: the entry
\* that was second is now first and "Initial" is gone
C4_Witness ==
    /\ ops > 0
    /\ Len(history) = MAX_HISTORY_SIZE
    /\ history_index = MAX_HISTORY_SIZE - 1
    /\ history[1].surf.obj = 2
    /\ history[MAX_HISTORY_SIZE].surf.obj = 1
    /\ history[1].label = "Pen Stroke"

\* C5: the stack is never empty and history_index is a position in it
C5_IndexInRange ==
    /\ Len(history) >= 1
    /\ 0 <= history_index
    /\ history_index < Len(history)

\* back at the first of three entries, where one more undo must not move
C5_Witness ==
    /\ ops >= 2
    /\ Len(history) = 3
    /\ history_index = 0
    /\ drawing_surface.pix = Blank

\* C6: the live surface is never one of the snapshots of the stack, and a
\* tool drawing on the live surface leaves every entry as it was
NoAlias == \A k \in 1 .. Len(history) : history[k].surf.obj # drawing_surface.obj

C6_LiveSurfaceNotShared ==
    /\ []NoAlias
    /\ [][\A cpos \in WorldPoints : HistDraw(cpos) => history' = history]_vars

\* after going back to the second of three entries a tool drew on the live
\* surface, which now differs from the snapshot it was copied from
C6_Witness ==
    /\ Len(history) = 3
    /\ history_index = 1
    /\ history[2].surf.pix = {"L"}
    /\ drawing_surface.pix = {"L", "R"}
    /\ drawing_surface.obj # 0

\* C7: undo at index 0 and redo at the last index change nothing; elsewhere
\* undo moves history_index down by one and redo up by one, the stack is
\* unchanged and the live surface shows the snapshot at the new index
C7_UndoRedo ==
    [][/\ HistUndo =>
            IF history_index = 0
            THEN UNCHANGED <<history, history_index, drawing_surface, is_dirty>>
            ELSE /\ history_index' = history_index - 1
                 /\ history' = history
                 /\ drawing_surface'.pix = history[history_index].surf.pix
       /\ HistRedo =>
            IF history_index = Len(history) - 1
            THEN UNCHANGED <<history, history_index, drawing_surface, is_dirty>>
            ELSE /\ history_index' = history_index + 1
                 /\ history' = history
                 /\ drawing_surface'.pix = history[history_index + 2].surf.pix]_vars

\* two steps back in a stack of MAX_HISTORY_SIZE - 1 entries and one forward
C7_Witness ==
    /\ ops = MaxHistOps
    /\ Len(history) = MAX_HISTORY_SIZE - 1
    /\ history_index = MAX_HISTORY_SIZE - 3
    /\ drawing_surface.pix = history[MAX_HISTORY_SIZE - 2].surf.pix
    /\ drawing_surface.obj # 0
    /\ is_dirty

\* C9: clear_canvas leaves a blank live surface, a stack of the single entry
\* "Initial" with a blank snapshot, history_index 0, is_dirty false and no
\* project path
C9_ClearCanvas ==
    [][HistClear =>
        /\ drawing_surface'.pix = Blank
        /\ Len(history') = 1
        /\ history'[1].label = "Initial"
        /\ history'[1].surf.pix = Blank
        /\ history_index' = 0
        /\ ~is_dirty'
        /\ current_project_path' = None]_vars

\* cleared after the live surface had been replaced by a jump or a load
C9_Witness ==
    /\ ops >= 2
    /\ Len(history) = 1
    /\ history[1].label = "Initial"
    /\ history[1].surf.pix = Blank
    /\ drawing_surface.pix = Blank
    /\ drawing_surface.obj # 0
    /\ ~is_dirty
    /\ current_project_path = None

-----------------------------------------------------------------------------
(* Property of the camera, checked in CamSpec *)

\* C10: zoom_level stays within MIN_ZOOM .. MAX_ZOOM whatever is requested
\* by the wheel, the Ctrl keys, the slider or the injected set_zoom
C10_ZoomInRange == MIN_ZOOM <= ctx.zoom_level /\ ctx.zoom_level <= MAX_ZOOM

\* the injected set_zoom was asked for a level below MIN_ZOOM
C10_Witness == ops = 1 /\ ctx.zoom_level = MIN_ZOOM

-----------------------------------------------------------------------------
(* FnSpec: the camera functions of ZoomTool, called one at a time on camera  *)
(* states drawn from a grid of zoom levels, offsets and cursor positions     *)

\* zoom levels within MIN_ZOOM .. MAX_ZOOM
FnZooms == {MIN_ZOOM, 100, 130, MAX_ZOOM}
\* offsets (hundredths of a pixel): dragged right and down, at the origin,
\* inside the world, off the grid of whole pixels, and beyond the far edge
FnOffsets ==
    { <<10000, 10000>>, <<0, 0>>, <<-50000, -20000>>, <<-333, -777>>,
      <<-2000000, -1500000>> }
\* world sizes handed to apply_constraints: the canvas's own, one smaller than
\* the viewport on both axes, one exactly the viewport, one smaller on y only
WorldSizes ==
    { <<WORLD_WIDTH, WORLD_HEIGHT>>, <<1000, 400>>, <<SCREEN_WIDTH, SCREEN_HIGH>>,
      <<3000, 400>> }
\* zoom levels asked of _set_zoom
FnRequests == {10, MIN_ZOOM, 100, 170, 275}
\* pivots of _set_zoom
FnPivots == {<<0, 0>>, P_DONT, screen_center}

\* a session between two handlers whose camera is at (z, off), cursor at mp
CameraAt(z, off, mp) ==
    [Startup EXCEPT !.ctx.zoom_level = z, !.ctx.pan_offset = off, !.ctx.mouse_pos = mp]

InitFn ==
    /\ \E z \in FnZooms : \E off \in FnOffsets : \E mp \in CamPositions :
           Resume(CameraAt(z, off, mp))
    /\ AtLoopTop
    /\ frame = 0

FnStep(r) ==
    /\ ops < MaxFnOps
    /\ Commit(r)
    /\ ops' = ops + 1
    /\ UNCHANGED <<phase, cam_moves, frame, polled>>

\* ZoomTool.apply_constraints(context, world_size)
FnApply(world_size) == FnStep(apply_constraints(S, world_size))
\* ZoomTool._set_zoom(context, new_zoom, pivot_pos)
FnSetZoom(new_zoom, pivot_pos) == FnStep(ZoomTool_set_zoom(S, new_zoom, pivot_pos))

NextFn ==
    \/ \E ws \in WorldSizes : FnApply(ws)
    \/ \E z \in FnRequests : \E p \in FnPivots : FnSetZoom(z, p)

FnSpec == InitFn /\ [][NextFn]_vars

\* the offset the clamp/centre policy prescribes on one axis
PolicyOffset(viewport, world, z, off) ==
    IF world * z >= viewport * 100
    THEN Max(viewport * 100 - world * z, Min(0, off))
    ELSE (viewport * 100 - world * z) \div 2

\* C11: apply_constraints leaves on each axis, independently, the input offset
\* clamped to [viewport - world*zoom, 0] if world*zoom >= viewport, and
\* (viewport - world*zoom)/2 otherwise
C11_ClampOrCentre ==
    [][\A ws \in WorldSizes :
          FnApply(ws) =>
              ctx'.pan_offset =
                  << PolicyOffset(SCREEN_WIDTH, ws[1], ctx.zoom_level, ctx.pan_offset[1]),
                     PolicyOffset(SCREEN_HIGH, ws[2], ctx.zoom_level, ctx.pan_offset[2]) >>]_vars

\* at zoom 1.0 a world of 3000 x 400 is clamped on x (from 100 px to 0) and
\* centred on y
C11_Witness ==
    /\ ops = 1
    /\ ctx.zoom_level = 100
    /\ ctx.pan_offset = <<0, (SCREEN_HIGH * 100 - 400 * 100) \div 2>>

\* C13: apply_constraints is idempotent: in the state it leaves, a second
\* call with the same world size changes neither zoom_level nor pan_offset
C13_ConstraintsIdempotent ==
    [][\A ws \in WorldSizes :
          FnApply(ws) =>
              /\ apply_constraints(S', ws).ctx.zoom_level = ctx'.zoom_level
              /\ apply_constraints(S', ws).ctx.pan_offset = ctx'.pan_offset]_vars

\* apply_constraints was called twice on a world of 1000 x 400 at zoom 1.3,
\* which it centres
C13_Witness ==
    /\ ops = 2
    /\ ctx.zoom_level = 130
    /\ ctx.pan_offset = << (SCREEN_WIDTH * 100 - 1000 * 130) \div 2,
                           (SCREEN_HIGH * 100 - 400 * 130) \div 2 >>
    /\ ctx.canvas_mouse_pos # NoPos

-----------------------------------------------------------------------------
(* PanSpec: frames whose events zoom and pan, with the Pen or the Hand tool  *)
(* active                                                                    *)

\* on the Hand tool's toolbar button as first laid out
P_HAND == <<100, 900>>
\* the Hand tool was chosen in the first frame
HandSession == ClickAt(Startup, P_HAND)

\* far apart on the canvas
P_NW == <<100, 100>>
P_SE == <<1600, 800>>
\* a drag with the middle button from a to b: press, move and release, each
\* polled in a frame of its own
Drag(s, a, b) ==
    run_frame(run_frame(run_frame(s, a, <<MouseDown(2, a)>>, IdleIO),
                        b, <<MouseMotion(b)>>, IdleIO),
              b, <<MouseUp(2, b)>>, IdleIO)
\* three drags to the lower right have brought the left edge of the world to
\* the left edge of the screen
EdgeSession == Drag(Drag(Drag(Startup, P_NW, P_SE), P_NW, P_SE), P_NW, P_SE)

InitPan ==
    /\ \E r \in {Startup, HandSession, EdgeSession, ClickAt(EdgeSession, P_HAND)} :
           Resume(r)
    /\ AtLoopTop
    /\ frame = 0

\* cursor positions on the canvas, 150 px apart
PanPositions == {P_SAVE, P_DONT, P_CANCEL}
PanEvents ==
    {MouseDown(1, ctx.mouse_pos), MouseUp(1, ctx.mouse_pos),
     MouseDown(2, ctx.mouse_pos), MouseUp(2, ctx.mouse_pos),
     MouseMotion(ctx.mouse_pos), MouseWheel(1), MouseWheel(-1),
     KeyDown("=", TRUE, FALSE), KeyDown("-", TRUE, FALSE),
     KeyDown("SPACE", FALSE, FALSE), KeyUp("SPACE")}

NextPan ==
    \/ \E p \in PanPositions : PollFrame(p)
    \/ \E ev \in PanEvents : NormalEvent(ev, IdleIO)
    \/ EndFrame

PanSpec == InitPan /\ [][NextPan]_vars

\* pan_offset satisfies the clamp/centre constraint for zoom_level, the world
\* size and the viewport size
Constrained ==
    ctx.pan_offset =
        << PolicyOffset(SCREEN_WIDTH, WORLD_WIDTH, ctx.zoom_level, ctx.pan_offset[1]),
           PolicyOffset(SCREEN_HIGH, WORLD_HEIGHT, ctx.zoom_level, ctx.pan_offset[2]) >>

\* C12: when a frame is rendered, after its events and state updates, the
\* camera is constrained, whatever zoomed or panned during the frame
C12_ConstrainedWhenRendered ==
    (frame > 0 /\ phase \in {"poll", "done"}) => Constrained

\* a drag to the right, which would uncover the left edge of the world, is
\* still going on and the frame is rendered with the offset back at 0
C12_Witness ==
    /\ phase = "poll"
    /\ cam_moves = 1
    /\ ctx.is_panning
    /\ ctx.mouse_pos[1] > ctx.pan_start_pos[1]
    /\ ctx.pan_offset[1] = 0
    /\ ctx.zoom_level = 100

-----------------------------------------------------------------------------
(* Properties of the camera functions, checked in FnSpec.  Positions are     *)
(* compared on the grid of hundredths of a pixel the model computes on:      *)
(* equal means no further apart than the roundings of a division by a zoom   *)
(* level of at least MIN_ZOOM, two hundredths.                               *)

Near(a, b) == a - b \in -2 .. 2
NearPos(p, q) == Near(p[1], q[1]) /\ Near(p[2], q[2])

\* C14: _set_zoom keeps the world point under the pivot where it was:
\* screen_to_canvas(pivot) with the new zoom and offset is
\* screen_to_canvas(pivot) with the old ones; and from zoom 1.0,
\* set_zoom(0.1, (0,0)) followed by set_zoom(1.0, (0,0)) restores the offset
C14_PivotFixed ==
    /\ [](ctx.zoom_level = 100 =>
            NearPos(ZoomTool_set_zoom(ZoomTool_set_zoom(S, 10, <<0, 0>>),
                                      100, <<0, 0>>).ctx.pan_offset,
                    ctx.pan_offset))
    /\ [][\A z \in FnRequests : \A p \in FnPivots :
            FnSetZoom(z, p) =>
                NearPos(simple_screen_to_canvas(p, ctx'.zoom_level, ctx'.pan_offset),
                        simple_screen_to_canvas(p, ctx.zoom_level, ctx.pan_offset))]_vars

\* _set_zoom has brought the zoom to 1.7 and moved the offset
C14_Witness ==
    /\ ops = 1
    /\ ctx.zoom_level = 170
    /\ ctx.pan_offset \notin FnOffsets

\* screen positions and world positions the conversions are applied to
ScreenPoints == CamPositions \cup FnPivots \cup {ctx.mouse_pos}
CanvasPoints == WorldPoints \cup {<<123456, 65432>>, ctx.canvas_mouse_pos}

\* C15: screen_to_canvas and canvas_to_screen undo each other, in both
\* orders, for the zoom level and offset of every camera state
C15_ConversionsInverse ==
    /\ \A p \in ScreenPoints :
          NearPos(simple_canvas_to_screen(
                      simple_screen_to_canvas(p, ctx.zoom_level, ctx.pan_offset),
                      ctx.zoom_level, ctx.pan_offset),
                  <<p[1] * 100, p[2] * 100>>)
    /\ \A c \in CanvasPoints :
          NearPos(screen_to_canvas_fine(
                      simple_canvas_to_screen(c, ctx.zoom_level, ctx.pan_offset),
                      ctx.zoom_level, ctx.pan_offset),
                  c)

\* apply_constraints has converted the cursor position at zoom 1.3, and the
\* way back meets the cursor position only up to the rounding of the grid
C15_Witness ==
    /\ ops >= 1
    /\ ctx.zoom_level = 130
    /\ ctx.canvas_mouse_pos =
           simple_screen_to_canvas(ctx.mouse_pos, ctx.zoom_level, ctx.pan_offset)
    /\ simple_canvas_to_screen(ctx.canvas_mouse_pos, ctx.zoom_level, ctx.pan_offset)
           # <<ctx.mouse_pos[1] * 100, ctx.mouse_pos[2] * 100>>

-----------------------------------------------------------------------------
(* Tool loading (canvas.py lines 519-566): the loop over the plugins and    *)
(* the validation of the injected camera functions                          *)

\* a kit holds at most this many plugins
MaxKits == 3

\* the keys of _injection_targets
InjectionTargets == CameraSlots \cup {"hand_tool_id"}

\* plugins as load_kits() returns them: the config's registryId and type, and
\* the names in the class's INJECT_METHODS ({} when the class has none)
Plugins ==
    { [registryId |-> PenId, type |-> "drawing_tool", INJECT_METHODS |-> {}],
      [registryId |-> HandId, type |-> "context_tool",
       INJECT_METHODS |-> {"hand_tool_id"}],
      [registryId |-> ZoomId, type |-> "utility_tool", INJECT_METHODS |-> CameraSlots],
      [registryId |-> "zoom_only", type |-> "utility_tool",
       INJECT_METHODS |-> {"set_zoom", "apply_constraints"}],
      [registryId |-> "coords", type |-> "utility_tool",
       INJECT_METHODS |-> {"screen_to_canvas", "canvas_to_screen", "hand_tool_id"}],
      [registryId |-> "camera_brush", type |-> "drawing_tool",
       INJECT_METHODS |-> CameraSlots],
      [registryId |-> "minimap", type |-> "utility_tool",
       INJECT_METHODS |-> {"reset_camera"}] }

Kits == UNION { [1 .. n -> Plugins] : n \in 0 .. MaxKits }

\* variant of the validation that asks for set_zoom alone, as open_file does
InjectionComplete_set_zoom(slots) == "set_zoom" \in slots

\* lines 565-566: none of the four placeholders is None
InjectionComplete(slots) == CameraSlots \subseteq slots

\* lines 543-550: the names of a utility tool's INJECT_METHODS that have a
\* dispatcher in _injection_targets
Dispatched(plugin) ==
    IF plugin.type = "utility_tool"
    THEN plugin.INJECT_METHODS \cap InjectionTargets
    ELSE {}

InitLoad ==
    /\ Resume(Startup)
    /\ phase = "load"
    /\ loaded_tool_plugins \in Kits
    /\ injected = {}
    /\ kit_objects = << >>
    /\ tools = << >>
    /\ NoScan
    /\ strokes = 0
    /\ cam_moves = 0
    /\ polled = 0
    /\ ops = 0
    /\ frame = 0

\* one pass of the loop of lines 531-560
LoadTool ==
    /\ phase = "load"
    /\ loaded_tool_plugins # << >>
    /\ injected' = injected \cup (Dispatched(Head(loaded_tool_plugins)) \cap CameraSlots)
    /\ hand_tool_id' = IF "hand_tool_id" \in Dispatched(Head(loaded_tool_plugins))
                       THEN Head(loaded_tool_plugins).registryId
                       ELSE hand_tool_id
    /\ loaded_tool_plugins' = Tail(loaded_tool_plugins)
    /\ UNCHANGED <<running, is_dirty, current_project_path, dialog_state,
                   dialog_pending_action, history, history_index,
                   history_scroll_offset, drawing_surface, ctx, pen, hand, zoom,
                   palette, drag_held, phase, kit_objects, tools, root,
                   loaders_run, components, delivered, strokes, cam_moves,
                   frame, polled, ops>>

\* lines 565-566, then on to the main loop at line 617
ValidateInjection ==
    /\ phase = "load"
    /\ loaded_tool_plugins = << >>
    /\ phase' = IF InjectionComplete(injected) THEN "poll" ELSE "failed"
    /\ UNCHANGED <<running, is_dirty, current_project_path, dialog_state,
                   dialog_pending_action, history, history_index,
                   history_scroll_offset, drawing_surface, hand_tool_id, ctx, pen,
                   hand, zoom, palette, drag_held, loaded_tool_plugins, injected,
                   kit_objects, tools, root, loaders_run, components,
                   delivered, strokes, cam_moves, frame, polled, ops>>

NextLoad ==
    \/ LoadTool
    \/ ValidateInjection

LoadSpec == InitLoad /\ [][NextLoad]_vars

\* C16: when the plugins are loaded and one of the four camera slots is
\* unbound, startup ends in the RuntimeError with no event polled, and the
\* main loop is entered only with all four bound
C16_StartupNeedsCamera ==
    /\ [](phase \notin {"load", "failed"} => CameraSlots \subseteq injected)
    /\ [](phase = "failed" => frame = 0 /\ polled = 0)
    /\ [][(ValidateInjection /\ ~(CameraSlots \subseteq injected)) =>
              phase' = "failed"]_vars

\* startup has failed with two of the four slots bound by a utility tool
C16_Witness ==
    /\ phase = "failed"
    /\ loaded_tool_plugins = << >>
    /\ injected = {"set_zoom", "apply_constraints"}

-----------------------------------------------------------------------------
(* The menus, the toolbar and the size popup: sessions with a menu or the   *)
(* popup open, and clicks on the toolbar, in the menus and on the canvas    *)

P_PEN == <<40, 900>>
\* in the size popup, beside the slider and the input box
P_MODAL == <<250, 780>>
\* on the padding of the History panel, above its first row
P_PAD == <<150, 42>>

UiSessions ==
    { Startup,
      ClickAt(Startup, P_PEN),
      HandSession,
      ClickAt(Startup, P_FILE),
      ClickAt(Startup, P_HIST),
      ClickAt(Strokes(Startup, 1), P_FILE),
      ClickAt(Strokes(Startup, 1), P_HIST) }

InitUi ==
    /\ \E r \in UiSessions : Resume(r)
    /\ AtLoopTop
    /\ frame = MaxFrames - ResumedFrames

UiPositions == {P_PEN, P_HAND, P_MODAL, P_PAD, P_ITEM0, P_ITEM1, P_DONT}

UiEvents ==
    {MouseDown(1, ctx.mouse_pos), MouseUp(1, ctx.mouse_pos), MouseMotion(ctx.mouse_pos),
     MouseDown(3, ctx.mouse_pos)}

NextUi ==
    \/ \E p \in UiPositions : PollFrame(p)
    \/ \E ev \in UiEvents : DialogEvent(ev, IdleIO)
    \/ \E ev \in UiEvents :
          \E io \in (IF IsDown1(ev) /\ ctx.menu_open = "file" THEN IOs ELSE {IdleIO}) :
              NormalEvent(ev, io)
    \/ EndFrame

UiSpec == InitUi /\ [][NextUi]_vars

-----------------------------------------------------------------------------
(* Properties of the menus, the toolbar and the popup, checked in UiSpec *)

\* the step handles one polled event in the normal loop
NormalEventStep == phase = "events" /\ polled' = polled + 1

C18_ToolbarButtonClick ==
    [][\A k \in 1 .. Len(loaded_tool_instances(S)) :
        ( /\ NormalEventStep
          /\ collidepoint(ToolButtonRect(loaded_tool_instances(S)[k], S), ctx.mouse_pos)
          /\ ctx.menu_open # loaded_tool_instances(S)[k]
          /\ NormalEvent(MouseDown(1, ctx.mouse_pos), IdleIO) )
        => /\ "button" \in delivered'
           /\ ctx'.active_tool_id = loaded_tool_instances(S)[k]
           /\ ctx'.click_on_ui]_vars

\* the cursor is inside the hot zone of the open File or History menu
InHotZone ==
    \E r \in (IF ctx.menu_open = "file" THEN file_menu_hot_zone(S)
              ELSE history_menu_hot_zone) : collidepoint(r, ctx.mouse_pos)

\* C19: a left click outside the hot zone of the open File or History menu
\* closes the menu and is still passed on to what lies under it: the toolbar
\* button there or the active tool
C19_ClickThrough ==
    [][( /\ NormalEventStep
         /\ ctx.menu_open \in {"file", "history"}
         /\ ~InHotZone
         /\ NormalEvent(MouseDown(1, ctx.mouse_pos), IdleIO) )
       => /\ ctx'.menu_open # ctx.menu_open
          /\ delivered' \cap {"button", "active"} # {}]_vars

\* C20: a left click in the hot zone of the open File or History menu, below
\* the top bar, leaves the menu closed, whether or not it hit an item
C20_MenuClosesOnClick ==
    [][( /\ NormalEventStep
         /\ ctx.menu_open \in {"file", "history"}
         /\ InHotZone
         /\ ~collidepoint(top_bar_rect, ctx.mouse_pos)
         /\ \E io \in IOs \cup {IdleIO} :
                NormalEvent(MouseDown(1, ctx.mouse_pos), io) )
       => ctx'.menu_open = None]_vars

-----------------------------------------------------------------------------
(* Properties of the wheel, of panning and of the space bar *)

\* the cursor is over the top bar, the toolbar or the open History menu
OverChrome ==
    \/ collidepoint(top_bar_rect, ctx.mouse_pos)
    \/ collidepoint(toolbar_rect(S), ctx.mouse_pos)
    \/ ctx.menu_open = "history" /\ collidepoint(history_placeholder_rect, ctx.mouse_pos)

\* C21: a wheel event leaves zoom_level and pan_offset alone when the cursor
\* is over the top bar, the toolbar or the open History menu, and otherwise
\* sets the zoom to zoom_level + 0.1 (up) or - 0.1 (down) about the cursor
C21_WheelZooms ==
    [][\A wy \in {-1, 1} :
        (NormalEventStep /\ NormalEvent(MouseWheel(wy), IdleIO))
        => IF OverChrome
           THEN ctx'.zoom_level = ctx.zoom_level /\ ctx'.pan_offset = ctx.pan_offset
           ELSE /\ ctx'.zoom_level =
                     ZoomTool_set_zoom(S, ctx.zoom_level + 10 * wy,
                                       ctx.mouse_pos).ctx.zoom_level
                /\ ctx'.pan_offset =
                     ZoomTool_set_zoom(S, ctx.zoom_level + 10 * wy,
                                       ctx.mouse_pos).ctx.pan_offset]_vars

\* a pan is in progress and b is the button that started it: the middle
\* button for the zoom tool's pan, the left button for the hand tool's
PanHeldBy(b) ==
    \/ zoom.is_panning /\ b = 2
    \/ ctx.is_panning /\ ~zoom.is_panning /\ ctx.active_tool_id = HandId /\ b = 1

\* C22: the button-up that matches a pan in progress ends it (both
\* is_panning flags are false afterwards), and mouse motion while no pan is
\* in progress leaves pan_offset alone
C22_PanEndsOnButtonUp ==
    [][/\ \A b \in {1, 2} :
            (NormalEventStep /\ PanHeldBy(b)
                 /\ NormalEvent(MouseUp(b, ctx.mouse_pos), IdleIO))
            => ~ctx'.is_panning /\ ~zoom'.is_panning
       /\ (NormalEventStep /\ ~ctx.is_panning /\ ~zoom.is_panning
               /\ NormalEvent(MouseMotion(ctx.mouse_pos), IdleIO))
            => ctx'.pan_offset = ctx.pan_offset]_vars

-----------------------------------------------------------------------------
(* The space bar: sessions of a kit that declares the hand tool a utility   *)
(* tool, so that the loading loop binds hand_tool_id (lines 538-550)        *)

\* the session when the main loop is entered with that kit: the zoom tool is
\* instantiated at the toolbar_btn_x that one toolbar tool leaves
StartupHandUtility ==
    [Startup EXCEPT !.hand_tool_id = HandId,
                    !.zoom.slider_pos = <<toolbar_btn_x_after(1), toolbar_hidden_y + 10>>]

\* at startup, and with the hand tool made the active tool by a click on its button
InitKey ==
    /\ \E r \in {StartupHandUtility, ClickAt(StartupHandUtility, P_HAND)} : Resume(r)
    /\ AtLoopTop
    /\ frame = 0

KeySpec == InitKey /\ [][NextPan]_vars

\* C23: with a hand tool id registered, a frame with a space key-down makes
\* the hand tool the active tool, and a space key-up in the next frame makes
\* the tool active again that was active before the key-down
C23_SpaceRestoresTool ==
    (phase = "poll" /\ hand_tool_id # None /\ dialog_state = None)
    => /\ run_frame(S, ctx.mouse_pos, <<KeyDown("SPACE", FALSE, FALSE)>>,
                    IdleIO).ctx.active_tool_id = hand_tool_id
       /\ run_frame(run_frame(S, ctx.mouse_pos, <<KeyDown("SPACE", FALSE, FALSE)>>,
                              IdleIO),
                    ctx.mouse_pos, <<KeyUp("SPACE")>>, IdleIO).ctx.active_tool_id
              = ctx.active_tool_id

\* C24: the session is idle again, with is_drawing and is_panning false,
\* after a frame in which a mouse button was pressed and released on the
\* canvas; stated of the start-up state, in which no button is held
C24_IdleFlagsClear ==
    (phase = "poll" /\ frame = 0 /\ Resume(Startup))
    => \A b \in {1, 2} : \A p \in PanPositions :
          /\ ~run_frame(S, p, <<MouseDown(b, p), MouseUp(b, p)>>, IdleIO).ctx.is_drawing
          /\ ~run_frame(S, p, <<MouseDown(b, p), MouseUp(b, p)>>, IdleIO).ctx.is_panning

-----------------------------------------------------------------------------
(* Properties of leaving the session and of the file operations             *)

\* the step is a left click on "Don't Save" in a dialog opened for "exit"
DontSaveExitStep ==
    /\ phase = "dialog"
    /\ dialog_pending_action = "exit"
    /\ \E ev \in Events : /\ IsDown1(ev)
                          /\ DialogActionTaken(ev) = "dont_save"
                          /\ DialogEvent(ev, IdleIO)

\* C26: a window-close event opens the confirmation dialog for "exit" when
\* is_dirty is true and leaves the session running; running becomes false only
\* with is_dirty false or by "Don't Save" with pending action exit; and a
\* frame without dialog (in which "Don't Save" cannot have been clicked) that
\* ends the loop ends it with is_dirty false
C26_NoUnconfirmedExit ==
    [][/\ (NormalEvent(QuitEvent, IdleIO) /\ is_dirty)
          => /\ dialog_state' = "confirm_action"
             /\ dialog_pending_action' = "exit"
             /\ running' = running
       /\ (running /\ ~running') => (~is_dirty' \/ DontSaveExitStep)
       /\ (phase = "events" /\ phase' = "done") => ~is_dirty']_vars

\* what the file dialog and the file answer when open_file fails: the dialog
\* is cancelled, or reading or decoding the file raises
FailedOpens == {io \in OpenIOs : io.open.kind # "ok"}

\* C27: when open_file is cancelled or reading or decoding raises, it returns
\* False and the live surface, history, history_index, current_project_path
\* and is_dirty are what they were
C27_FailedOpenKeepsSession ==
    \A io \in FailedOpens :
        /\ open_file(S, io).ret = FALSE
        /\ open_file(S, io).drawing_surface = drawing_surface
        /\ open_file(S, io).history = history
        /\ open_file(S, io).history_index = history_index
        /\ open_file(S, io).current_project_path = current_project_path
        /\ open_file(S, io).is_dirty = is_dirty

\* C27 witness: a project was opened and drawn on, so there is a path, unsaved
\* changes and more than one history entry for a failing open_file to keep
C27_Witness ==
    /\ ops >= 2
    /\ is_dirty
    /\ current_project_path # None
    /\ Len(history) >= 2
    /\ history_index = Len(history) - 1

\* the session keeps its path and its dirty flag, and the function returned
\* False
SaveRefused(r) ==
    /\ r.ret = FALSE
    /\ r.current_project_path = current_project_path
    /\ r.is_dirty = is_dirty

\* C28: when the Save As dialog is cancelled or writing the file raises,
\* save_vecbo and save_as_vecbo return False and leave current_project_path
\* and is_dirty as they were; is_dirty becomes false only when the file was
\* written
C28_FailedSaveKeepsSession ==
    \A io \in IOs :
        /\ (io.save_as = None \/ io.write = "raise") => SaveRefused(save_as_vecbo(S, io))
        /\ ((current_project_path = None /\ io.save_as = None) \/ io.write = "raise")
              => SaveRefused(save_vecbo(S, io))
        /\ (is_dirty /\ ~save_as_vecbo(S, io).is_dirty) => io.write = "ok"
        /\ (is_dirty /\ ~save_vecbo(S, io).is_dirty) => io.write = "ok"

-----------------------------------------------------------------------------
(* Project files of any size: "size" in the file is whatever was pickled,   *)
(* the world size when save_vecbo wrote the file (line 355)                 *)

\* the sizes a file may state: the world size and a smaller one
FileSizes == { <<WORLD_WIDTH, WORLD_HEIGHT>>, <<WORLD_WIDTH \div 2, WORLD_HEIGHT \div 2>> }

\* a file whose pixel data fits the size it states
FileAnswers ==
    {[kind |-> "cancel"], [kind |-> "raise"]}
        \cup {[kind |-> "ok", path |-> p, pix |-> c, size |-> z] :
                 p \in Paths, c \in Contents, z \in FileSizes}

FileIOs == [open : FileAnswers, save_as : {None}, write : {"ok"}]

NextFile ==
    \/ \E io \in FileIOs : HistOpen(io)
    \/ \E cpos \in WorldPoints : HistDraw(cpos)
    \/ \E label \in Labels : HistAdd(label)
    \/ HistClear

FileSpec == InitHist /\ [][NextFile]_vars

\* C29: the live drawing surface has the world dimensions, also after
\* open_file loaded a file that states another size
C29_SurfaceWorldSized == drawing_surface.size = <<WORLD_WIDTH, WORLD_HEIGHT>>

-----------------------------------------------------------------------------
(* The v3.1 kit loader: libs/common/kits/components/builds/v3_1.py, loads() *)

\* a kit lists at most this many tools
MaxTools == 3

\* an entry of "@objects" with nothing wrong: a JSON object with the keys
\* main_file, main_class, name and type, whose main file exists and whose
\* module executes and exposes the main class
GoodTool(n) ==
    [name |-> n, is_dict |-> TRUE, main_file |-> TRUE, main_class |-> TRUE,
     has_name |-> TRUE, type |-> TRUE, file_exists |-> TRUE, exec_ok |-> TRUE,
     has_class |-> TRUE]

\* two good entries and one entry for each way of being wrong: the main file
\* does not exist (with and without a "name" key), a key is missing, the
\* module raises when executed, the module lacks the class, and an entry that
\* is not a JSON object
ToolObjects ==
    { GoodTool("Pen"), GoodTool("Hand"),
      [GoodTool("Ghost") EXCEPT !.file_exists = FALSE],
      [GoodTool("Anon") EXCEPT !.file_exists = FALSE, !.has_name = FALSE],
      [GoodTool("Pathless") EXCEPT !.main_file = FALSE],
      [GoodTool("Untyped") EXCEPT !.type = FALSE],
      [GoodTool("Broken") EXCEPT !.exec_ok = FALSE],
      [GoodTool("Renamed") EXCEPT !.has_class = FALSE],
      [GoodTool("text") EXCEPT !.is_dict = FALSE] }

KitListings == UNION { [1 .. n -> ToolObjects] : n \in 0 .. MaxTools }

\* lines 57-111, the body of the try: "append" when the tool is appended,
\* "continue" at lines 62-64, "except" when a statement raises an Exception
\* (TypeError of toolObject[..] on an entry that is not an object, KeyError of
\* a missing key, whatever exec_module raises, AttributeError of getattr)
try_body(toolObject) ==
    IF ~toolObject.is_dict THEN "except"
    ELSE IF ~toolObject.main_file \/ ~toolObject.main_class THEN "except"
    ELSE IF ~toolObject.file_exists
    THEN IF toolObject.has_name THEN "continue" ELSE "except"
    ELSE IF ~toolObject.exec_ok \/ ~toolObject.has_class THEN "except"
    ELSE IF ~toolObject.type THEN "except"
    ELSE "append"

\* lines 112-114: the handler logs toolObject.get('name', 'Unknown'), which
\* raises AttributeError when the entry is not an object; the outer try
\* catches FileNotFoundError and KeyError only (lines 116-119)
except_handler(toolObject) == IF toolObject.is_dict THEN "continue" ELSE "raise"

\* one pass of the loop of line 55
ToolOutcome(toolObject) ==
    IF try_body(toolObject) = "except" THEN except_handler(toolObject)
    ELSE try_body(toolObject)

InitKit ==
    /\ Resume(Startup)
    /\ phase = "loads"
    /\ kit_objects \in KitListings
    /\ tools = << >>
    /\ NoScan
    /\ loaded_tool_plugins = << >>
    /\ injected = {}
    /\ strokes = 0
    /\ cam_moves = 0
    /\ polled = 0
    /\ ops = 0
    /\ frame = 0

\* lines 55-114 for the entry after the ops entries visited so far
LoadsTool ==
    /\ phase = "loads"
    /\ ops < Len(kit_objects)
    /\ tools' = IF ToolOutcome(kit_objects[ops + 1]) = "append"
                THEN Append(tools, kit_objects[ops + 1].name) ELSE tools
    /\ phase' = IF ToolOutcome(kit_objects[ops + 1]) = "raise" THEN "raised" ELSE phase
    /\ ops' = ops + 1
    /\ UNCHANGED <<running, is_dirty, current_project_path, dialog_state,
                   dialog_pending_action, history, history_index,
                   history_scroll_offset, drawing_surface, hand_tool_id, ctx, pen,
                   hand, zoom, palette, drag_held, loaded_tool_plugins, injected,
                   kit_objects, root, loaders_run, components, delivered, strokes, cam_moves, frame, polled>>

\* line 121: return tools
LoadsReturn ==
    /\ phase = "loads"
    /\ ops = Len(kit_objects)
    /\ phase' = "returned"
    /\ UNCHANGED <<running, is_dirty, current_project_path, dialog_state,
                   dialog_pending_action, history, history_index,
                   history_scroll_offset, drawing_surface, hand_tool_id, ctx, pen,
                   hand, zoom, palette, drag_held, loaded_tool_plugins, injected,
                   kit_objects, tools, root, loaders_run, components,
                   delivered, strokes, cam_moves, frame, polled, ops>>

NextKit ==
    \/ LoadsTool
    \/ LoadsReturn

KitSpec == InitKit /\ [][NextKit]_vars

\* the entry is a well-formed descriptor of a tool whose main file exists and
\* whose module executes and exposes the main class
Loadable(toolObject) ==
    /\ toolObject.is_dict
    /\ toolObject.main_file /\ toolObject.main_class /\ toolObject.type
    /\ toolObject.file_exists /\ toolObject.exec_ok /\ toolObject.has_class

ToolNames(objects) == [k \in 1 .. Len(objects) |-> objects[k].name]

\* C30: no exception escapes the loader, and the tools it has collected are
\* exactly the loadable ones among the entries visited, in listing order; a
\* failing entry does not keep the entries after it from loading
C30_LoadFailuresIsolated ==
    /\ phase # "raised"
    /\ phase \in {"loads", "returned"}
          => tools = ToolNames(SelectSeq(SubSeq(kit_objects, 1, ops), Loadable))

-----------------------------------------------------------------------------
(* Button.is_clicked: libs/common/components/Buttons/Solid.py               *)

\* the button of tests/btn.py and the three buttons of the dialog
ButtonRects == {Rect(10, 10, 100, 50)} \cup {dialog_buttons[k].rect : k \in 1 .. 3}

\* the events of tests/btn.py, the events polled at the cursor, and a
\* right-button press at the cursor
ButtonProbes ==
    Events \cup {MouseDown(1, <<15, 15>>), MouseDown(1, <<200, 200>>),
                 MouseMotion(<<15, 15>>), MouseUp(1, <<15, 15>>),
                 MouseDown(3, ctx.mouse_pos)}

\* C31: is_clicked is True exactly for a MOUSEBUTTONDOWN whose position is
\* inside the rectangle: at or right of the left edge and left of the right
\* edge, at or below the top edge and above the bottom edge
C31_IsClicked ==
    \A rect \in ButtonRects : \A event \in ButtonProbes :
        Button_is_clicked(rect, event)
            <=> /\ event.type = "MOUSEBUTTONDOWN"
                /\ event.pos # NoPos
                /\ event.pos[1] \in rect.x .. (rect.x + rect.w - 1)
                /\ event.pos[2] \in rect.y .. (rect.y + rect.h - 1)

\* C31 witness: in a dialog frame the cursor is on "Don't Save", where a
\* button-down is a click and a motion is not, and an event has been handled
C31_Witness ==
    /\ phase = "dialog"
    /\ polled >= 1
    /\ Button_is_clicked(dialog_buttons[2].rect, MouseDown(1, ctx.mouse_pos))
    /\ ~Button_is_clicked(dialog_buttons[2].rect, MouseMotion(ctx.mouse_pos))
    /\ ~Button_is_clicked(dialog_buttons[1].rect, MouseDown(1, ctx.mouse_pos))

-----------------------------------------------------------------------------
(* Clicks on the top bar and on the toolbar                                 *)

\* on the top bar right of its two buttons, and on the toolbar right of the
\* tool buttons and the zoom slider
P_TOPBAR == <<800, 10>>
P_TOOLBAR == <<1500, 900>>

\* the cursor positions tried that lie inside the top bar or the toolbar
BarPositions ==
    {p \in {P_TOPBAR, P_TOOLBAR, P_FILE, P_HIST, P_PEN, P_HAND} :
        \/ collidepoint(top_bar_rect, p)
        \/ collidepoint(toolbar_rect(S), p)}

\* C32: a frame whose one event is a left mouse-down inside the top bar or the
\* toolbar leaves is_drawing, is_panning and the drawing surface as they were
C32_BarClickNotCanvas ==
    (phase = "poll" /\ dialog_state = None)
    => \A p \in BarPositions :
          /\ run_frame(S, p, <<MouseDown(1, p)>>, IdleIO).ctx.is_drawing = ctx.is_drawing
          /\ run_frame(S, p, <<MouseDown(1, p)>>, IdleIO).ctx.is_panning = ctx.is_panning
          /\ run_frame(S, p, <<MouseDown(1, p)>>, IdleIO).drawing_surface = drawing_surface

-----------------------------------------------------------------------------
(* is_dirty and the drawing                                                 *)

\* the step left a history of one entry: open_file or clear_canvas
HistoryReset == Len(history') = 1 /\ history_index' = 0

\* C33: with no stroke in progress the live surface has the content of the
\* snapshot at history_index; a step that changes the history or
\* history_index leaves is_dirty true unless it is a load or a clear; and
\* is_dirty becomes false only in a step that keeps the history (a save) or is
\* a load or a clear.  Together: content that differs from the last saved,
\* loaded or cleared content goes with is_dirty true
C33_DirtyTracksDrawing ==
    /\ [](~ctx.is_drawing => drawing_surface.pix = history[history_index + 1].surf.pix)
    /\ [][(history' # history \/ history_index' # history_index)
             => (is_dirty' \/ HistoryReset)]_vars
    /\ [][(is_dirty /\ ~is_dirty')
             => (UNCHANGED <<history, history_index>> \/ HistoryReset)]_vars

-----------------------------------------------------------------------------
(* The buttons of the unsaved-changes dialog                                *)

\* the step is a left click on this button of the open dialog, with these
\* answers of the file dialogs and the file system
DialogClick(name, io) ==
    /\ phase = "dialog"
    /\ dialog_state # None
    /\ DialogActionTaken(MouseDown(1, ctx.mouse_pos)) = name
    /\ DialogEvent(MouseDown(1, ctx.mouse_pos), io)

\* the step changed nothing of the session but the dialog
SessionKept ==
    /\ DialogGuarded' = DialogGuarded
    /\ UNCHANGED <<running, is_dirty, current_project_path, history_scroll_offset>>

\* the step performed the action the dialog was opened for
PendingPerformed(io) ==
    /\ dialog_pending_action = "exit" => ~running'
    /\ dialog_pending_action = "new_canvas"
          => /\ Len(history') = 1 /\ history'[1].label = "Initial"
             /\ drawing_surface'.pix = Blank
             /\ current_project_path' = None /\ ~is_dirty'
    /\ (dialog_pending_action = "open_file" /\ io.open.kind = "ok")
          => /\ Len(history') = 1 /\ history'[1].label = "Opened"
             /\ drawing_surface'.pix = io.open.pix
             /\ current_project_path' = io.open.path /\ ~is_dirty'

\* the save the Save button asks for succeeds with these answers
SaveSucceeds(io) ==
    /\ io.write = "ok"
    /\ current_project_path # None \/ io.save_as # None

\* C34: Cancel closes the dialog, clears the pending action and changes
\* nothing else; Don't Save closes the dialog and performs the pending
\* action; Save does the same when the save succeeded, and otherwise leaves
\* the dialog open with its pending action and changes nothing else
C34_DialogButtons ==
    [][\A io \in IOs :
        /\ DialogClick("cancel", io)
              => dialog_state' = None /\ dialog_pending_action' = None /\ SessionKept
        /\ DialogClick("dont_save", io)
              => dialog_state' = None /\ PendingPerformed(io)
        /\ (DialogClick("save", io) /\ SaveSucceeds(io))
              => dialog_state' = None /\ PendingPerformed(io)
        /\ (DialogClick("save", io) /\ ~SaveSucceeds(io))
              => /\ dialog_state' = dialog_state
                 /\ dialog_pending_action' = dialog_pending_action
                 /\ SessionKept]_vars

-----------------------------------------------------------------------------
(* Injection at load time                                                   *)

\* C35: when the loading loop has visited a plugin, every name of its
\* INJECT_METHODS that has a host slot is bound: the camera slots it declares
\* are not None, and if it declares hand_tool_id the host's hand_tool_id is
\* its registryId, whatever its type
C35_DeclaredNamesBound ==
    [][LoadTool
        => /\ (Head(loaded_tool_plugins).INJECT_METHODS \cap CameraSlots) \subseteq injected'
           /\ "hand_tool_id" \in Head(loaded_tool_plugins).INJECT_METHODS
                 => hand_tool_id' = Head(loaded_tool_plugins).registryId]_vars

-----------------------------------------------------------------------------
(* The scroll offset of the History menu                                    *)

\* C36: history_scroll_offset lies between 0 and
\* max(0, len(history) - MAX_VISIBLE_HISTORY_ITEMS), so that the first row of
\* the History menu is an entry of the history
C36_ScrollOffsetInRange ==
    /\ 0 <= history_scroll_offset
    /\ history_scroll_offset <= Max(0, Len(history) - MAX_VISIBLE_HISTORY_ITEMS)

-----------------------------------------------------------------------------
(* PalSpec: frames of mouse events in a session whose kit lists the          *)
(* ColorPalette as third toolbar tool                                        *)

\* the session when the main loop is entered, the palette loaded
PalStartup ==
    [Startup EXCEPT !.palette = InitPalette,
                    !.zoom.slider_pos = <<toolbar_btn_x_after(3), toolbar_hidden_y + 10>>]

\* on the palette's toolbar button; in the wheel; in the value bar, high and
\* low; on the first recent swatch; on the canvas
P_PALETTE == <<180, 900>>
P_WHEEL == <<130, 703>>
P_BAR == <<200, 650>>
P_BAR_LOW == <<200, 750>>
P_SWATCH == <<35, 813>>
P_OUT == <<800, 400>>
PalPositions == {P_PALETTE, P_WHEEL, P_BAR, P_BAR_LOW, P_SWATCH, P_OUT, P_FILE, P_PEN}

\* the popup closed, open, and open with a drag of the value bar under way
PalSessions ==
    { PalStartup,
      ClickAt(PalStartup, P_PALETTE),
      ClickAt(ClickAt(PalStartup, P_PALETTE), P_BAR) }

InitPal ==
    /\ \E r \in PalSessions : Resume(r)
    /\ AtLoopTop
    /\ frame = 0

PalEvents ==
    {MouseDown(1, ctx.mouse_pos), MouseUp(1, ctx.mouse_pos), MouseMotion(ctx.mouse_pos)}

NextPal ==
    \/ \E p \in PalPositions : PollFrame(p)
    \/ \E ev \in PalEvents : NormalEvent(ev, IdleIO)
    \/ EndFrame

PalSpec == InitPal /\ [][NextPal]_vars

\* C37: a MOUSEMOTION changes draw_color only while drag_held, that is
\* between a left button-down on the wheel or the value bar of the open popup
\* and the next left button-up; and when the popup opens, is_dragging_wheel
\* and is_dragging_bar are false
C37_DragOnly ==
    [][/\ \A ev \in PalEvents :
             (/\ ev.type = "MOUSEMOTION"
              /\ NormalEvent(ev, IdleIO)
              /\ ctx'.draw_color # ctx.draw_color) => drag_held
       /\ (ctx.menu_open # PaletteId /\ ctx'.menu_open = PaletteId)
             => (~palette'.is_dragging_wheel /\ ~palette'.is_dragging_bar)]_vars

-----------------------------------------------------------------------------
(* The toolbar slide                                                         *)

\* C38: the slide converges on its target: a frame's update puts the toolbar
\* on the frame's target y or leaves it strictly nearer to it than it was, so
\* that with a constant target the toolbar arrives within finitely many frames
\* and then stays
C38_SlideConverges ==
    [][EndFrame =>
          \/ ctx'.toolbar_current_y = toolbar_target_y(S)
          \/ Abs(ctx'.toolbar_current_y - toolbar_target_y(S))
                < Abs(ctx.toolbar_current_y - toolbar_target_y(S))]_vars

-----------------------------------------------------------------------------
(* CompSpec: kits.components(fdir), the dispatcher over the loader versions  *)
(* (libs/common/kits/__init__.py).  A kit directory is described by what its *)
(* initial.json holds: the value of "kits-loaders" as written, whether there *)
(* is a "components" key, and the names of the tools of "@objects" that load. *)

\* the scan lists at most this many kit directories
MaxRootKits == 3

KitDir(name, has_initial, declared, has_components, objects) ==
    [name |-> name, has_initial |-> has_initial, declared |-> declared,
     has_components |-> has_components, objects |-> objects]

\* two kits for loader 3.1, one each for 3, 2 and 1, one for a loader that
\* does not exist, and a directory without initial.json
KitDirs ==
    { KitDir("builtins", TRUE, "3.1", TRUE, <<"Pen", "Hand">>),
      KitDir("camera", TRUE, "3.1", TRUE, <<"Zoom">>),
      KitDir("stamps", TRUE, "3", TRUE, <<"Stamp">>),
      KitDir("brushes", TRUE, "2", TRUE, <<"Brush">>),
      KitDir("legacy", TRUE, "1", FALSE, <<"Old">>),
      KitDir("future", TRUE, "9", TRUE, <<"Next">>),
      KitDir("assets", FALSE, "unkown", FALSE, << >>) }

\* the directory fdir: its kit directories in scandir order, all different,
\* and whether fdir holds an initial.json of its own
Roots ==
    { [kits |-> ks, has_initial |-> b] :
        ks \in { q \in UNION { [1 .. n -> KitDirs] : n \in 0 .. MaxRootKits } :
                    \A i, j \in 1 .. Len(q) : i # j => q[i].name # q[j].name },
        b \in BOOLEAN }
\* what an initial.json in fdir itself describes
LooseKit == KitDir(".", TRUE, "3.1", TRUE, <<"Loose">>)

\* lines 48-54: float() or int() of the declared value; the version numbers
\* are written as the strings Python prints for them
ParseVersion(declared) ==
    IF declared \in {"1", "1.0"} THEN "1"
    ELSE IF declared \in {"2", "2.0"} THEN "2"
    ELSE IF declared \in {"3", "3.0"} THEN "3"
    ELSE declared
SupportedVersions == {"1", "2", "3", "3.1"}

\* the tools of kit directory k as loader version v returns them
Loaded(k, v) ==
    [i \in 1 .. Len(k.objects) |-> [kit |-> k.name, tool |-> k.objects[i], loader |-> v]]

RECURSIVE ScanFrom(_, _, _)
\* "for ... in os.listdir/scandir": the kits from the i-th on, by loader v
ScanFrom(kits, i, v) ==
    IF i > Len(kits) THEN << >>
    ELSE (IF /\ kits[i].has_initial
             /\ v = "1" => kits[i].declared = "1.0.0"
             /\ v = "3" => kits[i].has_components
          THEN Loaded(kits[i], v) ELSE << >>) \o ScanFrom(kits, i + 1, v)

\* v1.loads(fdir): the kits of fdir that declare "1.0.0" (v1.py lines 51-55)
v1(r) == ScanFrom(r.kits, 1, "1")
\* v2.loads(fdir): every kit of fdir that has an initial.json (v2.py line 65)
v2(r) == ScanFrom(r.kits, 1, "2")
\* v3.loads(fdir): every kit of fdir whose initial.json has "components"
v3(r) == ScanFrom(r.kits, 1, "3")
\* v3_1.loads(fdir): fdir itself read as one kit (v3_1.py lines 36-47, 116-117)
v3_1(r) == IF r.has_initial THEN Loaded(LooseKit, "3.1") ELSE << >>

\* the loader of version lv applied to fdir
RunLoader(lv, r) ==
    IF lv = "1" THEN v1(r) ELSE IF lv = "2" THEN v2(r)
    ELSE IF lv = "3" THEN v3(r) ELSE v3_1(r)

InitComp ==
    /\ Resume(Startup)
    /\ phase = "scan"
    /\ root \in Roots
    /\ loaders_run = {}
    /\ components = << >>
    /\ loaded_tool_plugins = << >>
    /\ injected = {}
    /\ kit_objects = << >>
    /\ tools = << >>
    /\ strokes = 0
    /\ cam_moves = 0
    /\ polled = 0
    /\ ops = 0
    /\ frame = 0

\* lines 41-79: one iteration of "for e in os.scandir(bdr)"
ScanKit ==
    /\ phase = "scan"
    /\ ops < Len(root.kits)
    /\ LET e == root.kits[ops + 1]
           lv == ParseVersion(e.declared)
       IN  IF e.has_initial /\ lv \notin loaders_run
           THEN /\ components' = IF lv \in SupportedVersions
                                 THEN components \o RunLoader(lv, root)
                                 ELSE components
                /\ loaders_run' = loaders_run \cup {lv}
           ELSE UNCHANGED <<components, loaders_run>>
    /\ ops' = ops + 1
    /\ UNCHANGED <<running, is_dirty, current_project_path, dialog_state,
                   dialog_pending_action, history, history_index,
                   history_scroll_offset, drawing_surface, hand_tool_id, ctx, pen,
                   hand, zoom, palette, drag_held, phase, loaded_tool_plugins,
                   injected, kit_objects, tools, root, delivered, strokes,
                   cam_moves, frame, polled>>

\* line 82: return components
ScanReturn ==
    /\ phase = "scan"
    /\ ops = Len(root.kits)
    /\ phase' = "scanned"
    /\ UNCHANGED <<running, is_dirty, current_project_path, dialog_state,
                   dialog_pending_action, history, history_index,
                   history_scroll_offset, drawing_surface, hand_tool_id, ctx, pen,
                   hand, zoom, palette, drag_held, loaded_tool_plugins, injected,
                   kit_objects, tools, root, loaders_run, components, delivered,
                   strokes, cam_moves, frame, polled, ops>>

NextComp ==
    \/ ScanKit
    \/ ScanReturn

CompSpec == InitComp /\ [][NextComp]_vars

\* the entries of the result that give tool t of kit directory k
EntriesFor(k, t) ==
    {i \in 1 .. Len(components) : components[i].kit = k.name /\ components[i].tool = t}

\* C39: when components(root) returns, every tool of every kit directory that
\* declares loader 1, 2, 3 or 3.1 is in the result exactly once, as loaded by
\* the declared version's loader, and no tool of a kit that declares another
\* version is in it
C39_EachKitByItsLoader ==
    phase = "scanned" =>
        \A i \in 1 .. Len(root.kits) :
            LET k == root.kits[i] IN
                \A j \in 1 .. Len(k.objects) :
                    IF ParseVersion(k.declared) \in SupportedVersions
                    THEN /\ Cardinality(EntriesFor(k, k.objects[j])) = 1
                         /\ \A n \in EntriesFor(k, k.objects[j]) :
                               components[n].loader = ParseVersion(k.declared)
                    ELSE EntriesFor(k, k.objects[j]) = {}

=============================================================================
